---- MODULE Spec2Model ----
(***************************************************************************)
(* Model of the metadata extraction engine of link-to-share                *)
(* (src/src/lib/scraper.ts): the site classifier, the vendor-API           *)
(* extractors, the HTML extractors, the remote fallback client and the     *)
(* orchestrator scrapeUrl, as a state machine whose steps are the awaits   *)
(* of one scrapeUrl call.                                                  *)
(*                                                                         *)
(* JavaScript values are records tagged by t: undefined, null, a string    *)
(* (a sequence of characters; a URL or another opaque text is a sequence   *)
(* of one or more chunks) or an object.                                    *)
(***************************************************************************)
EXTENDS Integers, Sequences, FiniteSets, TLC

\* ------------------------------------------------------------------------
\* JavaScript values
\* ------------------------------------------------------------------------
Undef == [t |-> "undefined"]
Null == [t |-> "null"]
Str(s) == [t |-> "string", v |-> s]
EmptyStr == Str(<<>>)

IsString(x) == x.t = "string"

\* JavaScript truthiness of the values the scraper handles.
Truthy(x) ==
  CASE x.t = "undefined" -> FALSE
    [] x.t = "null" -> FALSE
    [] x.t = "string" -> x.v # <<>>
    [] OTHER -> TRUE

\* a || b
Or(a, b) == IF Truthy(a) THEN a ELSE b

\* ------------------------------------------------------------------------
\* Characters and strings
\* ------------------------------------------------------------------------
UpperCase == <<"A","B","C","D","E","F","G","H","I","J","K","L","M",
               "N","O","P","Q","R","S","T","U","V","W","X","Y","Z">>
LowerCase == <<"a","b","c","d","e","f","g","h","i","j","k","l","m",
               "n","o","p","q","r","s","t","u","v","w","x","y","z">>

ToLowerChar(c) ==
  IF \E i \in 1..26 : UpperCase[i] = c
    THEN LowerCase[CHOOSE i \in 1..26 : UpperCase[i] = c]
    ELSE c

IsSpace(c) == c \in {" ", "\t", "\n"}

\* String.prototype.trim on a sequence of characters.
RECURSIVE TrimStart(_)
TrimStart(s) ==
  IF s # <<>> /\ IsSpace(Head(s)) THEN TrimStart(Tail(s)) ELSE s

RECURSIVE TrimEnd(_)
TrimEnd(s) ==
  IF s # <<>> /\ IsSpace(s[Len(s)]) THEN TrimEnd(SubSeq(s, 1, Len(s) - 1)) ELSE s

Trim(s) == TrimEnd(TrimStart(s))

\* x.trim() for a string value x
TrimStr(x) == Str(Trim(x.v))

\* s starts with the literal lit, compared case-insensitively (lit is lower case)
StartsWithCI(s, lit) ==
  /\ Len(s) >= Len(lit)
  /\ \A i \in 1..Len(lit) : ToLowerChar(s[i]) = lit[i]

\* String.prototype.includes
Includes(s, lit) ==
  \E k \in 0..(Len(s) - Len(lit)) : \A i \in 1..Len(lit) : s[k + i] = lit[i]

\* Array.prototype.join(' ') over an array of character sequences
RECURSIVE JoinSpace(_)
JoinSpace(parts) ==
  IF parts = <<>> THEN <<>>
  ELSE IF Len(parts) = 1 THEN parts[1]
  ELSE parts[1] \o <<" ">> \o JoinSpace(Tail(parts))

\* ------------------------------------------------------------------------
\* Input URLs: the raw string together with what `new URL(url)` makes of
\* it (hostname as its labels, pathname as its segments, the query as its
\* key/value pairs).  valid = FALSE is a string `new URL` throws on.
\* ------------------------------------------------------------------------
MkUrl(raw, host, path, query) ==
  [raw |-> Str(<<raw>>), valid |-> TRUE, host |-> host, path |-> path, query |-> query]

BadUrl(raw) ==
  [raw |-> Str(<<raw>>), valid |-> FALSE, host |-> <<>>, path |-> <<>>, query |-> <<>>]

Urls ==
  { MkUrl("https://www.youtube.com/watch?v=abc", <<"www","youtube","com">>, <<"watch">>, << <<"v","abc">> >>),
    MkUrl("https://youtu.be/abc", <<"youtu","be">>, <<"abc">>, <<>>),
    MkUrl("https://youtube.com/playlist?list=PL1", <<"youtube","com">>, <<"playlist">>, << <<"list","PL1">> >>),
    MkUrl("https://x.com/someuser/status/12345", <<"x","com">>, <<"someuser","status","12345">>, <<>>),
    MkUrl("https://www.twitter.com/someuser", <<"www","twitter","com">>, <<"someuser">>, <<>>),
    MkUrl("https://www.packtpub.com/free-learning", <<"www","packtpub","com">>, <<"free-learning">>, <<>>),
    MkUrl("https://www.packtpub.com/product/XYZ", <<"www","packtpub","com">>, <<"product","XYZ">>, <<>>),
    MkUrl("https://www.amazon.es/dp/XYZ", <<"www","amazon","es">>, <<"dp","XYZ">>, <<>>),
    MkUrl("https://smile.amazon.co.uk/dp/XYZ", <<"smile","amazon","co","uk">>, <<"dp","XYZ">>, <<>>),
    MkUrl("https://example.com/article", <<"example","com">>, <<"article">>, <<>>),
    MkUrl("https://notyoutube.com/watch?v=abc", <<"notyoutube","com">>, <<"watch">>, << <<"v","abc">> >>),
    BadUrl("not a url") }

\* ------------------------------------------------------------------------
\* Site classifier
\* ------------------------------------------------------------------------
\* the optional (www\.)? prefix of the hostname patterns
StripWww(host) == IF host # <<>> /\ Head(host) = "www" THEN Tail(host) ELSE host

\* /^(www\.)?(youtube\.com|youtu\.be)$/i.test(hostname), false when new URL throws
isYouTubeUrl(u) ==
  /\ u.valid
  /\ StripWww(u.host) \in { <<"youtube","com">>, <<"youtu","be">> }

\* mutant: the optional www. is missing from the pattern
isTwitterUrl_NoWww(u) ==
  /\ u.valid
  /\ u.host \in { <<"twitter","com">>, <<"x","com">> }

\* /^(www\.)?(twitter\.com|x\.com)$/i.test(hostname)
isTwitterUrl(u) ==
  /\ u.valid
  /\ StripWww(u.host) \in { <<"twitter","com">>, <<"x","com">> }

\* the path segments that have free-learning as a substring ('/' is not in
\* it, so pathname.includes('free-learning') is decided within one segment)
FreeLearningSegments == {"free-learning", "free-learning-offer"}

\* /^(www\.)?packtpub\.com$/i.test(hostname) && pathname.includes('free-learning')
isPacktFreeLearningUrl(u) ==
  /\ u.valid
  /\ StripWww(u.host) = <<"packtpub","com">>
  /\ \E i \in 1..Len(u.path) : u.path[i] \in FreeLearningSegments

AmazonTlds ==
  { <<"com">>, <<"es">>, <<"co","uk">>, <<"de">>, <<"fr">>, <<"it">>, <<"ca">>,
    <<"com","mx">>, <<"com","br">>, <<"co","jp">>, <<"in">>, <<"com","au">> }

\* mutant: without the try/catch around new URL, the patterns applied to
\* the text as it stands
isAmazonUrl_Unparsed(u) ==
  \/ \E tld \in AmazonTlds : StripWww(u.host) = <<"amazon">> \o tld
  \/ \E tld \in AmazonTlds : \E k \in 2..Len(u.host) :
       SubSeq(u.host, k, Len(u.host)) = <<"amazon">> \o tld

\* /^(www\.)?amazon\.(tld)$/i.test(hostname) || /\.amazon\.(tld)$/i.test(hostname)
isAmazonUrl(u) ==
  /\ u.valid
  /\ \/ \E tld \in AmazonTlds : StripWww(u.host) = <<"amazon">> \o tld
     \/ \E tld \in AmazonTlds : \E k \in 2..Len(u.host) :
          SubSeq(u.host, k, Len(u.host)) = <<"amazon">> \o tld

\* ------------------------------------------------------------------------
\* The parsed document (cheerio.load(html)): what each selector the scraper
\* uses finds in it.  An attribute read (.attr) is undefined or a string; a
\* text read (.text()) is always a string, empty when nothing matches.
\* ------------------------------------------------------------------------
LEAD_SELECTORS ==
  << "p.paragraph:first-of-type", ".paragraph:first-of-type", "article header p",
     ".article-intro", ".article__intro", ".article-lead", ".article__lead",
     ".lead", ".intro", ".subtitle", ".article-subtitle", ".article__subtitle",
     ".entradilla", ".sumario", ".excerpt", "[itemprop=description]",
     "[itemprop=articleBody] > p:first-of-type", "article > p:first-of-type",
     ".content > p:first-of-type", ".article-body > p:first-of-type",
     ".article__body > p:first-of-type", ".story-body > p:first-of-type",
     ".post-content > p:first-of-type" >>

\* the byline selectors of extractAuthor
authorSelectors == << ".author", ".byline", ".author-name", "[rel=author]" >>

\* the book-description selectors of extractAmazonData
descSelectors ==
  << "#bookDescription_feature_div .a-expander-content",
     "#bookDescription .a-expander-content",
     "[data-a-expander-name=book_description_expander] .a-expander-content",
     "#bookDescription_feature_div", "#bookDescription" >>

NoContainer == [exists |-> FALSE, paragraphs |-> <<>>, fullText |-> <<>>]

EmptyDoc ==
  [ ogTitle |-> Undef, twitterTitle |-> Undef, titleText |-> EmptyStr, h1Text |-> EmptyStr,
    ogDescription |-> Undef, twitterDescription |-> Undef, metaDescription |-> Undef,
    ogImage |-> Undef, twitterImage |-> Undef, articleImgSrc |-> Undef,
    articleAuthor |-> Undef, metaAuthor |-> Undef, itempropAuthorText |-> EmptyStr,
    bylineTexts |-> [i \in 1..Len(authorSelectors) |-> EmptyStr],
    canonical |-> Undef, ogUrl |-> Undef,
    leads |-> [i \in 1..Len(LEAD_SELECTORS) |-> Undef],
    \* Amazon
    productTitle |-> EmptyStr, ebooksProductTitle |-> EmptyStr, metaTitle |-> Undef,
    bylineAuthorLink |-> EmptyStr, contributorNameLink |-> EmptyStr, spanAuthorLink |-> EmptyStr,
    brandMatch |-> Undef, bylineLinkText |-> EmptyStr,
    descContainers |-> [i \in 1..Len(descSelectors) |-> NoContainer],
    productDescriptionP |-> EmptyStr, featureBullets |-> <<>>,
    imgDynamic |-> Undef, imgSrc |-> Undef,
    \* Packt
    packtImage1 |-> Undef, packtImage2 |-> Undef,
    packtTitle1 |-> EmptyStr, packtTitle2 |-> EmptyStr,
    packtAuthor1 |-> EmptyStr, packtAuthor2 |-> EmptyStr,
    packtDesc1 |-> EmptyStr, packtDesc2 |-> EmptyStr,
    packtPubDate |-> EmptyStr, packtPages |-> EmptyStr ]

\* ------------------------------------------------------------------------
\* Generic metadata reader
\* ------------------------------------------------------------------------
\* mutant: the <title> element is looked at before the meta tags
extractTitle_TitleTagFirst(doc) ==
  IF Truthy(doc.titleText) THEN TrimStr(doc.titleText)
  ELSE IF Truthy(doc.ogTitle) THEN TrimStr(doc.ogTitle)
  ELSE IF Truthy(doc.twitterTitle) THEN TrimStr(doc.twitterTitle)
  ELSE IF Truthy(doc.h1Text) THEN TrimStr(doc.h1Text)
  ELSE Null

extractTitle(doc) ==
  IF Truthy(doc.ogTitle) THEN TrimStr(doc.ogTitle)
  ELSE IF Truthy(doc.twitterTitle) THEN TrimStr(doc.twitterTitle)
  ELSE IF Truthy(doc.titleText) THEN TrimStr(doc.titleText)
  ELSE IF Truthy(doc.h1Text) THEN TrimStr(doc.h1Text)
  ELSE Null

extractDescription(doc) ==
  IF Truthy(doc.ogDescription) THEN TrimStr(doc.ogDescription)
  ELSE IF Truthy(doc.twitterDescription) THEN TrimStr(doc.twitterDescription)
  ELSE IF Truthy(doc.metaDescription) THEN TrimStr(doc.metaDescription)
  ELSE Null

\* mutant: the scan ends at the first selector that matches an element
RECURSIVE LongDescriptionFrom_StopsAtMatch(_, _, _)
LongDescriptionFrom_StopsAtMatch(doc, metaDescription, i) ==
  IF i > Len(LEAD_SELECTORS) THEN Null
  ELSE LET element == doc.leads[i]
           text == IF IsString(element) THEN Trim(element.v) ELSE <<>>
       IN IF IsString(element)
            THEN IF /\ Len(text) > 50
                    /\ (~Truthy(metaDescription) \/ Len(text) > Len(metaDescription.v))
                   THEN Str(text)
                   ELSE Null
            ELSE LongDescriptionFrom_StopsAtMatch(doc, metaDescription, i + 1)

\* mutant: the comparison with the meta description is left out
RECURSIVE LongDescriptionFrom_NoMetaCheck(_, _, _)
LongDescriptionFrom_NoMetaCheck(doc, metaDescription, i) ==
  IF i > Len(LEAD_SELECTORS) THEN Null
  ELSE LET element == doc.leads[i]
           text == IF IsString(element) THEN Trim(element.v) ELSE <<>>
       IN IF /\ IsString(element)
             /\ Len(text) > 50
            THEN Str(text)
            ELSE LongDescriptionFrom_NoMetaCheck(doc, metaDescription, i + 1)

\* the loop of extractLongDescription from selector i on
RECURSIVE LongDescriptionFrom(_, _, _)
LongDescriptionFrom(doc, metaDescription, i) ==
  IF i > Len(LEAD_SELECTORS) THEN Null
  ELSE LET element == doc.leads[i]
           text == IF IsString(element) THEN Trim(element.v) ELSE <<>>
       IN IF /\ IsString(element)
             /\ Len(text) > 50
             /\ (~Truthy(metaDescription) \/ Len(text) > Len(metaDescription.v))
            THEN Str(text)
            ELSE LongDescriptionFrom(doc, metaDescription, i + 1)

extractLongDescription(doc, metaDescription) == LongDescriptionFrom(doc, metaDescription, 1)

extractImage(doc) ==
  IF Truthy(doc.ogImage) THEN doc.ogImage
  ELSE IF Truthy(doc.twitterImage) THEN doc.twitterImage
  ELSE IF Truthy(doc.articleImgSrc) THEN doc.articleImgSrc
  ELSE Null

RECURSIVE BylineFrom(_, _)
BylineFrom(doc, i) ==
  IF i > Len(authorSelectors) THEN Null
  ELSE IF Truthy(doc.bylineTexts[i]) THEN TrimStr(doc.bylineTexts[i])
  ELSE BylineFrom(doc, i + 1)

extractAuthor(doc) ==
  IF Truthy(doc.articleAuthor) THEN TrimStr(doc.articleAuthor)
  ELSE IF Truthy(doc.metaAuthor) THEN TrimStr(doc.metaAuthor)
  ELSE IF Truthy(doc.itempropAuthorText) THEN TrimStr(doc.itempropAuthorText)
  ELSE BylineFrom(doc, 1)

\* mutant: `??` in place of the truthiness tests, so that an empty canonical
\* link is returned
extractCanonicalUrl_NullishOnly(doc, originalUrl) ==
  IF IsString(doc.canonical) THEN doc.canonical
  ELSE IF IsString(doc.ogUrl) THEN doc.ogUrl
  ELSE originalUrl

extractCanonicalUrl(doc, originalUrl) ==
  IF Truthy(doc.canonical) THEN doc.canonical
  ELSE IF Truthy(doc.ogUrl) THEN doc.ogUrl
  ELSE originalUrl

\* mutant: the generic reader picks up the page count of the Packt layout
GenericRecord_ReadsPages(doc, targetUrl) ==
  LET metaDescription == extractDescription(doc)
      longDescription == extractLongDescription(doc, metaDescription)
  IN [ title |-> extractTitle(doc),
       description |-> Or(longDescription, metaDescription),
       image |-> extractImage(doc),
       url |-> extractCanonicalUrl(doc, targetUrl),
       author |-> extractAuthor(doc),
       publicationDate |-> Null,
       pages |-> Or(doc.packtPages, Null) ]

\* The record of the generic path of scrapeUrl (response.ok, not Packt, not Amazon)
GenericRecord(doc, targetUrl) ==
  LET metaDescription == extractDescription(doc)
      longDescription == extractLongDescription(doc, metaDescription)
  IN [ title |-> extractTitle(doc),
       description |-> Or(longDescription, metaDescription),
       image |-> extractImage(doc),
       url |-> extractCanonicalUrl(doc, targetUrl),
       author |-> extractAuthor(doc),
       publicationDate |-> Null,
       pages |-> Null ]

\* the record with every field null except url
MinimalRecord(originalUrl) ==
  [ title |-> Null, description |-> Null, image |-> Null, url |-> originalUrl,
    author |-> Null, publicationDate |-> Null, pages |-> Null ]

\* ------------------------------------------------------------------------
\* Literals of the regular expressions and substring tests, lower-cased where
\* the test is case-insensitive
\* ------------------------------------------------------------------------
LIT_FREE_EBOOK == <<"f","r","e","e"," ","e","b","o","o","k">>
LIT_BY == <<"b","y">>
LIT_PUBLICATION_DATE == <<"p","u","b","l","i","c","a","t","i","o","n"," ","d","a","t","e",":">>
LIT_PAGES == <<"p","a","g","e","s",":">>
LIT_VISIT_THE == <<"v","i","s","i","t"," ","t","h","e">>
LIT_VISITA_LA_TIENDA_DE == <<"v","i","s","i","t","a"," ","l","a"," ","t","i","e","n","d","a"," ","d","e">>
LIT_VISITER_LA_BOUTIQUE == <<"v","i","s","i","t","e","r"," ","l","a"," ","b","o","u","t","i","q","u","e">>
LIT_BESUCHE_DEN == <<"b","e","s","u","c","h","e"," ","d","e","n">>
LIT_STORE == <<"s","t","o","r","e">>
LIT_LEGAL_DISCLAIMER == <<"L","E","G","A","L"," ","D","I","S","C","L","A","I","M","E","R">>
LIT_AMAZON_ES == <<"A","m","a","z","o","n",".","e","s">>

\* ------------------------------------------------------------------------
\* Specific-publisher extractor (Packt free learning)
\* ------------------------------------------------------------------------
\* s.replace(/^lit\s*/i, '')
StripPrefixCI(s, l) ==
  IF StartsWithCI(s, l) THEN TrimStart(SubSeq(s, Len(l) + 1, Len(s))) ELSE s

\* s.replace(/^lit\s+/i, '')
StripPrefixSpCI(s, l) ==
  IF StartsWithCI(s, l) /\ Len(s) > Len(l) /\ IsSpace(s[Len(l) + 1])
    THEN TrimStart(SubSeq(s, Len(l) + 1, Len(s)))
    ELSE s

\* s.replace(/^Free eBook\s*-\s*/i, '')
StripFreeEbook(s) ==
  IF StartsWithCI(s, LIT_FREE_EBOOK)
    THEN LET r == TrimStart(SubSeq(s, Len(LIT_FREE_EBOOK) + 1, Len(s)))
         IN IF r # <<>> /\ Head(r) = "-" THEN TrimStart(Tail(r)) ELSE s
    ELSE s

extractPacktData(doc, originalUrl) ==
  LET image == Or(Or(doc.packtImage1, doc.packtImage2), Null)
      titleRaw == Or(Or(TrimStr(doc.packtTitle1), TrimStr(doc.packtTitle2)), Null)
      title == IF Truthy(titleRaw) THEN Str(StripFreeEbook(titleRaw.v)) ELSE Null
      authorText == Or(TrimStr(doc.packtAuthor1), TrimStr(doc.packtAuthor2))
      author == Or(Str(Trim(StripPrefixSpCI(authorText.v, LIT_BY))), Null)
      description == Or(Or(Or(TrimStr(doc.packtDesc1), TrimStr(doc.packtDesc2)),
                           doc.metaDescription), Null)
      pubDateRaw == Trim(doc.packtPubDate.v)
      publicationDate == Or(Str(Trim(StripPrefixCI(pubDateRaw, LIT_PUBLICATION_DATE))), Null)
      pagesRaw == Trim(doc.packtPages.v)
      pages == Or(Str(Trim(StripPrefixCI(pagesRaw, LIT_PAGES))), Null)
  IN [ title |-> title,
       description |-> description,
       image |-> image,
       url |-> Or(doc.canonical, originalUrl),
       author |-> author,
       publicationDate |-> publicationDate,
       pages |-> pages ]

\* ------------------------------------------------------------------------
\* E-commerce extractor (Amazon)
\* ------------------------------------------------------------------------
\* content.split(':')[0]
RECURSIVE BeforeColon(_)
BeforeColon(s) ==
  IF s = <<>> \/ Head(s) = ":" THEN <<>> ELSE <<Head(s)>> \o BeforeColon(Tail(s))

AmazonTitle(doc) ==
  LET title == Or(Or(TrimStr(doc.productTitle), TrimStr(doc.ebooksProductTitle)), Null)
      metaPart == IF IsString(doc.metaTitle) THEN Str(Trim(BeforeColon(doc.metaTitle.v))) ELSE Undef
  IN IF Truthy(title) THEN title ELSE Or(metaPart, Null)

EndsWithCI(s, l) ==
  /\ Len(s) >= Len(l)
  /\ \A i \in 1..Len(l) : ToLowerChar(s[Len(s) - Len(l) + i]) = l[i]

\* s.replace(/\s+Store$/i, '')
StripSpStore(s) ==
  LET rest == SubSeq(s, 1, Len(s) - Len(LIT_STORE))
  IN IF EndsWithCI(s, LIT_STORE) /\ rest # <<>> /\ IsSpace(rest[Len(rest)])
       THEN TrimEnd(rest) ELSE s

\* s.replace(/[-\s]Store$/i, '')
StripSepStore(s) ==
  LET rest == SubSeq(s, 1, Len(s) - Len(LIT_STORE))
  IN IF EndsWithCI(s, LIT_STORE) /\ rest # <<>>
        /\ (rest[Len(rest)] = "-" \/ IsSpace(rest[Len(rest)]))
       THEN SubSeq(rest, 1, Len(rest) - 1) ELSE s

\* the chain of replaces on the text of the first #bylineInfo link
CleanBylineLink(s) ==
  StripSepStore(StripSpStore(
    StripPrefixSpCI(StripPrefixSpCI(StripPrefixSpCI(StripPrefixSpCI(s,
      LIT_VISIT_THE), LIT_VISITA_LA_TIENDA_DE), LIT_VISITER_LA_BOUTIQUE), LIT_BESUCHE_DEN)))

\* Author or brand.  brandMatch is the capture group of the first of the four
\* "visit the store" patterns that matches the #bylineInfo text (undefined
\* when none matches).
AmazonAuthor(doc) ==
  LET a1 == TrimStr(doc.bylineAuthorLink)
      a2 == IF Truthy(a1) THEN a1 ELSE TrimStr(doc.contributorNameLink)
      a3 == IF Truthy(a2) THEN a2 ELSE TrimStr(doc.spanAuthorLink)
      a4 == IF ~Truthy(a3) /\ IsString(doc.brandMatch) THEN TrimStr(doc.brandMatch) ELSE a3
      linkText == CleanBylineLink(Trim(doc.bylineLinkText.v))
      a5 == IF ~Truthy(a4) /\ linkText # <<>> /\ Len(linkText) < 50 THEN Str(linkText) ELSE a4
  IN Or(a5, Null)

\* paragraphs.push(text) for every non-empty trimmed paragraph text
RECURSIVE NonEmptyTrimmed(_)
NonEmptyTrimmed(texts) ==
  IF texts = <<>> THEN <<>>
  ELSE LET text == Trim(Head(texts))
       IN (IF text # <<>> THEN <<text>> ELSE <<>>) \o NonEmptyTrimmed(Tail(texts))

\* the loop over descSelectors from selector i on
RECURSIVE BookDescriptionFrom(_, _)
BookDescriptionFrom(doc, i) ==
  IF i > Len(descSelectors) THEN <<>>
  ELSE LET descDiv == doc.descContainers[i]
           paragraphs == NonEmptyTrimmed(descDiv.paragraphs)
           fullText == Trim(descDiv.fullText)
       IN IF descDiv.exists /\ Len(paragraphs) > 0 THEN JoinSpace(paragraphs)
          ELSE IF descDiv.exists /\ fullText # <<>> /\ Len(fullText) > 50 THEN fullText
          ELSE BookDescriptionFrom(doc, i + 1)

\* the feature bullets kept: non-empty and without the legal disclaimer
RECURSIVE KeptBullets(_)
KeptBullets(texts) ==
  IF texts = <<>> THEN <<>>
  ELSE LET text == Trim(Head(texts))
       IN (IF text # <<>> /\ ~Includes(text, LIT_LEGAL_DISCLAIMER) THEN <<text>> ELSE <<>>)
            \o KeptBullets(Tail(texts))

\* the description before truncation
AmazonRawDescription(doc) ==
  LET d1 == BookDescriptionFrom(doc, 1)
      d2 == IF d1 = <<>> THEN Trim(doc.productDescriptionP.v) ELSE d1
      bullets == KeptBullets(doc.featureBullets)
      d3 == IF d2 = <<>> /\ Len(bullets) > 0
              THEN JoinSpace(SubSeq(bullets, 1, IF Len(bullets) < 3 THEN Len(bullets) ELSE 3))
              ELSE d2
      metaDesc == Or(doc.metaDescription, EmptyStr).v
      d4 == IF d3 = <<>> /\ metaDesc # <<>> /\ ~Includes(metaDesc, LIT_AMAZON_ES)
               /\ Len(metaDesc) > 50
              THEN metaDesc ELSE d3
  IN d4

DESC_LIMIT == 500
DESC_KEEP == 497
ELLIPSIS == <<".", ".", ".">>

\* mutant: the cut keeps 500 characters before the dots
TruncateDescription_Keep500(description) ==
  IF Len(description) > DESC_LIMIT
    THEN SubSeq(description, 1, DESC_LIMIT) \o ELLIPSIS
    ELSE description

\* if (description.length > 500) description = description.substring(0, 497) + '...'
TruncateDescription(description) ==
  IF Len(description) > DESC_LIMIT
    THEN SubSeq(description, 1, DESC_KEEP) \o ELLIPSIS
    ELSE description

\* mutant: maxSize is never updated, so the last candidate of positive area wins
RECURSIVE LargestImage_NoUpdate(_, _)
LargestImage_NoUpdate(entries, acc) ==
  IF entries = <<>> THEN acc.image
  ELSE LET e == Head(entries)
           size == e.dims[1] * e.dims[2]
       IN IF size > acc.maxSize
            THEN LargestImage_NoUpdate(Tail(entries), [maxSize |-> acc.maxSize, image |-> e.url])
            ELSE LargestImage_NoUpdate(Tail(entries), acc)

\* The loop over Object.keys(imageObj): acc is [maxSize, image]
RECURSIVE LargestImage(_, _)
LargestImage(entries, acc) ==
  IF entries = <<>> THEN acc.image
  ELSE LET e == Head(entries)
           size == e.dims[1] * e.dims[2]
       IN IF size > acc.maxSize
            THEN LargestImage(Tail(entries), [maxSize |-> size, image |-> e.url])
            ELSE LargestImage(Tail(entries), acc)

\* mutant: src is also used when the parsed object selects no candidate
AmazonImage_SrcWhenNoneSelected(doc) ==
  LET dyn == doc.imgDynamic
      fromSrc == Or(doc.imgSrc, Null)
      largest == LargestImage(dyn.entries, [maxSize |-> 0, image |-> Null])
      image ==
        IF Truthy(dyn)
          THEN IF ~dyn.ok THEN fromSrc
               ELSE IF \E i \in 1..Len(dyn.entries) : dyn.entries[i].dims = Null THEN fromSrc
               ELSE IF largest = Null THEN fromSrc
               ELSE largest
          ELSE fromSrc
  IN IF ~Truthy(image) THEN Or(doc.ogImage, Null) ELSE image

\* imgDynamic is the data-a-dynamic-image attribute: undefined, the empty
\* string, a text JSON.parse throws on (ok = FALSE), or the parsed object as
\* its entries in key order; dims = Null is an entry whose value is null, on
\* which dims[0] throws.
AmazonImage(doc) ==
  LET dyn == doc.imgDynamic
      fromSrc == Or(doc.imgSrc, Null)
      image ==
        IF Truthy(dyn)
          THEN IF ~dyn.ok THEN fromSrc
               ELSE IF \E i \in 1..Len(dyn.entries) : dyn.entries[i].dims = Null THEN fromSrc
               ELSE LargestImage(dyn.entries, [maxSize |-> 0, image |-> Null])
          ELSE fromSrc
  IN IF ~Truthy(image) THEN Or(doc.ogImage, Null) ELSE image

extractAmazonData(doc, originalUrl) ==
  [ title |-> Or(AmazonTitle(doc), Null),
    description |-> Or(Str(TruncateDescription(AmazonRawDescription(doc))), Null),
    image |-> AmazonImage(doc),
    url |-> Or(doc.canonical, originalUrl),
    author |-> Or(AmazonAuthor(doc), Null),
    publicationDate |-> Null,
    pages |-> Null ]

\* ------------------------------------------------------------------------
\* Video platform extractor (YouTube oEmbed)
\* ------------------------------------------------------------------------
Obj(fields) == [t |-> "object"] @@ fields

\* originalUrl.match(/(?:v=|youtu\.be\/)([^&?/]+)/): the leftmost of a
\* non-empty first path segment after youtu.be/ and a non-empty v= value;
\* Null when the pattern does not match.
videoId(u) ==
  IF /\ StripWww(u.host) = <<"youtu","be">>
     /\ Len(u.path) >= 1
     /\ u.path[1] # ""
    THEN Str(<<u.path[1]>>)
  ELSE IF \E i \in 1..Len(u.query) : u.query[i][1] = "v" /\ u.query[i][2] # ""
    THEN LET i == CHOOSE j \in 1..Len(u.query) :
                    /\ u.query[j][1] = "v" /\ u.query[j][2] # ""
                    /\ \A k \in 1..(j - 1) : ~(u.query[k][1] = "v" /\ u.query[k][2] # "")
         IN Str(<<u.query[i][2]>>)
  ELSE Null

\* A reply to a vendor call: the fetch throws; or a response with ok and a
\* body that response.json() throws on (Invalid) or parses to a value.
Threw == [kind |-> "throw"]
Invalid == [t |-> "invalid"]
Reply(ok, json) == [kind |-> "response", ok |-> ok, json |-> json]

\* mutant: the body of a non-success reply is used
extractYouTubeData_IgnoresStatus(u, reply) ==
  IF reply.kind = "throw" \/ reply.json = Invalid \/ reply.json = Null
    THEN MinimalRecord(u.raw)
    ELSE LET data == reply.json
             id == videoId(u)
             maxResThumbnail ==
               IF Truthy(id)
                 THEN Str(<<"https://i.ytimg.com/vi/">> \o id.v \o <<"/maxresdefault.jpg">>)
                 ELSE data.thumbnail_url
         IN [ title |-> Or(data.title, Null),
              description |-> Null,
              image |-> maxResThumbnail,
              url |-> u.raw,
              author |-> Or(data.author_name, Null),
              publicationDate |-> Null,
              pages |-> Null ]

\* extractYouTubeData once the oEmbed call has replied
extractYouTubeData(u, reply) ==
  IF reply.kind = "throw" \/ ~reply.ok \/ reply.json = Invalid \/ reply.json = Null
    THEN MinimalRecord(u.raw)
    ELSE LET data == reply.json
             id == videoId(u)
             maxResThumbnail ==
               IF Truthy(id)
                 THEN Str(<<"https://i.ytimg.com/vi/">> \o id.v \o <<"/maxresdefault.jpg">>)
                 ELSE data.thumbnail_url
         IN [ title |-> Or(data.title, Null),
              description |-> Null,
              image |-> maxResThumbnail,
              url |-> u.raw,
              author |-> Or(data.author_name, Null),
              publicationDate |-> Null,
              pages |-> Null ]

\* ------------------------------------------------------------------------
\* Short-post social extractor (fxtwitter, then Twitter oEmbed)
\* ------------------------------------------------------------------------
\* path segments made of \w characters only, and those starting with a digit
WordSegments == {"someuser", "status", "12345", "watch", "playlist", "article", "dp", "XYZ", "abc"}
DigitSegments == {"12345"}

\* originalUrl.match(/(?:twitter\.com|x\.com)\/(\w+)\/status\/(\d+)/) on a
\* URL whose host is a Twitter host
tweetMatch(u) ==
  /\ Len(u.path) >= 3
  /\ u.path[1] \in WordSegments
  /\ u.path[2] = "status"
  /\ u.path[3] \in DigitSegments

\* The image of the post: [threw, image].  Reading .url or .thumbnail_url
\* of a first entry that is null throws a TypeError.
TweetImage(tweet) ==
  LET media == tweet.media
      photos == IF Truthy(media) THEN media.photos ELSE Undef
      videos == IF Truthy(media) THEN media.videos ELSE Undef
  IN IF Truthy(photos) /\ Len(photos.items) > 0
       THEN IF photos.items[1] = Null
              THEN [threw |-> TRUE, image |-> Null]
              ELSE [threw |-> FALSE, image |-> photos.items[1].url]
     ELSE IF Truthy(videos) /\ Len(videos.items) > 0
       THEN IF videos.items[1] = Null
              THEN [threw |-> TRUE, image |-> Null]
              ELSE [threw |-> FALSE, image |-> videos.items[1].thumbnail_url]
     ELSE [threw |-> FALSE, image |-> Null]

\* the post object of a reply of the mirror API, Undef when there is none
TweetOf(reply) ==
  IF reply.kind = "throw" \/ ~reply.ok \/ reply.json = Invalid \/ reply.json = Null
    THEN Undef
    ELSE reply.json.tweet

\* mutant: a post without text is treated as no post
FxSucceeds_RequiresText(reply) ==
  /\ Truthy(TweetOf(reply))
  /\ Truthy(TweetOf(reply).text)
  /\ ~TweetImage(TweetOf(reply)).threw

\* The first tier returns a record: the reply carries a post object and
\* building the record does not throw.
FxSucceeds(reply) ==
  /\ Truthy(TweetOf(reply))
  /\ ~TweetImage(TweetOf(reply)).threw

FxRecord(u, reply) ==
  LET tweet == TweetOf(reply)
      author == tweet.author
      name == IF Truthy(author) THEN author.name ELSE Undef
      screen_name == IF Truthy(author) THEN author.screen_name ELSE Undef
  IN [ title |-> Or(Or(name, screen_name), Null),
       description |-> Or(tweet.text, Null),
       image |-> TweetImage(tweet).image,
       url |-> u.raw,
       author |-> IF Truthy(screen_name) THEN Str(<<"@">> \o screen_name.v) ELSE Null,
       publicationDate |-> Null,
       pages |-> Null ]

\* mutant: response.ok is not tested
TwitterOEmbedRecord_IgnoresStatus(u, reply) ==
  IF reply.kind = "throw" \/ reply.json = Invalid \/ reply.json = Null
    THEN MinimalRecord(u.raw)
    ELSE LET data == reply.json
             tweetText == IF Truthy(data.html) THEN Str(Trim(data.html.blockquoteP)) ELSE EmptyStr
         IN [ title |-> Or(data.author_name, Null),
              description |-> Or(tweetText, Null),
              image |-> Null,
              url |-> Or(data.url, u.raw),
              author |-> Or(data.author_name, Null),
              publicationDate |-> Null,
              pages |-> Null ]

\* The second tier and the final return of extractTwitterData.  data.html
\* is undefined or the embed fragment, given by the text of its
\* `blockquote p` elements.
TwitterOEmbedRecord(u, reply) ==
  IF reply.kind = "throw" \/ ~reply.ok \/ reply.json = Invalid \/ reply.json = Null
    THEN MinimalRecord(u.raw)
    ELSE LET data == reply.json
             tweetText == IF Truthy(data.html) THEN Str(Trim(data.html.blockquoteP)) ELSE EmptyStr
         IN [ title |-> Or(data.author_name, Null),
              description |-> Or(tweetText, Null),
              image |-> Null,
              url |-> Or(data.url, u.raw),
              author |-> Or(data.author_name, Null),
              publicationDate |-> Null,
              pages |-> Null ]

\* ------------------------------------------------------------------------
\* Remote fallback client (Microlink)
\* ------------------------------------------------------------------------
\* obj?.url
UrlOf(obj) == IF Truthy(obj) THEN obj.url ELSE Undef

\* mutant: the status of the envelope is not looked at
extractWithMicrolink_AnyEnvelope(u, reply) ==
  IF reply.kind = "throw" \/ ~reply.ok \/ reply.json = Invalid \/ reply.json = Null
    THEN Null
  ELSE IF ~Truthy(reply.json.data)
    THEN Null
  ELSE LET data == reply.json.data
       IN [ title |-> Or(data.title, Null),
            description |-> Or(data.description, Null),
            image |-> Or(Or(UrlOf(data.image), UrlOf(data.logo)), Null),
            url |-> Or(data.url, u.raw),
            author |-> Or(Or(data.author, data.publisher), Null),
            publicationDate |-> Null,
            pages |-> Null ]

\* extractWithMicrolink once the call has replied: a record or Null
extractWithMicrolink(u, reply) ==
  IF reply.kind = "throw" \/ ~reply.ok \/ reply.json = Invalid \/ reply.json = Null
    THEN Null
  ELSE IF reply.json.status # "success" \/ ~Truthy(reply.json.data)
    THEN Null
  ELSE LET data == reply.json.data
       IN [ title |-> Or(data.title, Null),
            description |-> Or(data.description, Null),
            image |-> Or(Or(UrlOf(data.image), UrlOf(data.logo)), Null),
            url |-> Or(data.url, u.raw),
            author |-> Or(Or(data.author, data.publisher), Null),
            publicationDate |-> Null,
            pages |-> Null ]

\* ------------------------------------------------------------------------
\* Challenge-page detection
\* ------------------------------------------------------------------------
ChallengePhrases ==
  { <<"j","u","s","t"," ","a"," ","m","o","m","e","n","t">>,
    <<"a","t","t","e","n","t","i","o","n"," ","r","e","q","u","i","r","e","d">>,
    <<"p","l","e","a","s","e"," ","w","a","i","t">>,
    <<"c","h","e","c","k","i","n","g"," ","y","o","u","r"," ","b","r","o","w","s","e","r">>,
    <<"o","n","e"," ","m","o","r","e"," ","s","t","e","p">> }

\* mutant: the i flag of the pattern is missing
isChallengePage_CaseSensitive(title) ==
  /\ Truthy(title)
  /\ \E phrase \in ChallengePhrases :
       /\ Len(title.v) >= Len(phrase)
       /\ \A i \in 1..Len(phrase) : title.v[i] = phrase[i]

\* title && /^(just a moment|attention required|please wait|checking your
\* browser|one more step)/i.test(title), as a boolean
isChallengePage(title) ==
  /\ Truthy(title)
  /\ \E phrase \in ChallengePhrases : StartsWithCI(title.v, phrase)

\* ------------------------------------------------------------------------
\* Inputs: texts, documents and replies of the network
\* ------------------------------------------------------------------------
\* how far a long text exceeds the truncation limit
Excess == 1
\* the length of a lead paragraph
LeadLen == 80

\* a text of n characters that differ from position to position
MkText(n) == [i \in 1..n |-> LowerCase[((i - 1) % 26) + 1]]

LongText == MkText(DESC_LIMIT + Excess)

T_HELLO == <<"H","e","l","l","o">>
T_JUST_A_MOMENT == <<"J","u","s","t"," ","a"," ","m","o","m","e","n","t",".",".",".">>
T_ATTENTION == <<"A","t","t","e","n","t","i","o","n"," ","R","e","q","u","i","r","e","d","!"," ","|"," ","C","l","o","u","d","f","l","a","r","e">>
T_HELLO_WORLD == <<"H","e","l","l","o"," ","w","o","r","l","d">>
T_SOME_USER == <<"S","o","m","e"," ","U","s","e","r">>
T_AMAZON_BOILERPLATE == MkText(30) \o LIT_AMAZON_ES \o MkText(30)

U(name) == Str(<<name>>)

\* title, description, image and author signals of the generic reader
SignalDocs ==
  { [EmptyDoc EXCEPT !.ogTitle = a, !.ogDescription = c, !.ogImage = d, !.metaAuthor = e] :
      a \in {Undef, Str(<<" ">>), Str(T_HELLO), Str(T_JUST_A_MOMENT), Str(T_ATTENTION)},
      c \in {Undef, Str(T_HELLO_WORLD), Str(LongText)},
      d \in {Undef, U("https://example.com/og.jpg")},
      e \in {Undef, Str(T_SOME_USER)} }

\* canonical hints
UrlDocs ==
  { [EmptyDoc EXCEPT !.titleText = a, !.canonical = f, !.ogUrl = g] :
      a \in {EmptyStr, Str(T_HELLO)},
      f \in {Undef, EmptyStr, U("https://example.com/canonical")},
      g \in {Undef, U("https://example.com/og-url")} }

\* lead paragraphs next to a meta description
LeadDocs ==
  { [EmptyDoc EXCEPT !.ogTitle = Str(T_HELLO), !.metaDescription = m,
                     !.leads = [EmptyDoc.leads EXCEPT ![8] = l1, ![18] = l2]] :
      m \in {Undef, Str(MkText(60)), Str(MkText(LeadLen + 10))},
      l1 \in {Undef, Str(MkText(10)), Str(MkText(LeadLen))},
      l2 \in {Undef, Str(<<" ">> \o MkText(LeadLen + 20))} }

Paragraphs(ps) == [exists |-> TRUE, paragraphs |-> ps, fullText |-> JoinSpace(ps)]
Container(text) == [exists |-> TRUE, paragraphs |-> <<>>, fullText |-> text]

\* descriptions of an Amazon product page
AmazonDescDocs ==
  { [EmptyDoc EXCEPT !.productTitle = Str(T_HELLO),
                     !.descContainers = [EmptyDoc.descContainers EXCEPT ![1] = b1, ![4] = b4],
                     !.productDescriptionP = p, !.featureBullets = f, !.metaDescription = m] :
      b1 \in { NoContainer, Paragraphs(<<MkText(300), <<" ">>, MkText(199 + Excess)>>),
               Container(MkText(40)) },
      b4 \in { NoContainer, Container(MkText(DESC_LIMIT)) },
      p \in { EmptyStr, Str(LongText), Str(MkText(DESC_KEEP)) },
      f \in { <<>>, <<MkText(200), LIT_LEGAL_DISCLAIMER \o MkText(5), MkText(200),
                     MkText(100), MkText(50)>> },
      m \in { Undef, Str(MkText(60)), Str(T_AMAZON_BOILERPLATE) } }

Json(entries) == [t |-> "json", ok |-> TRUE, entries |-> entries]
BadJson == [t |-> "json", ok |-> FALSE, entries |-> <<>>]
Img(url, w, h) == [url |-> U(url), dims |-> <<w, h>>]
NullDims(url) == [url |-> U(url), dims |-> Null]

DynamicImages ==
  { Undef, EmptyStr, BadJson, Json(<<>>),
    Json(<<Img("img-300", 300, 300), Img("img-600", 600, 600)>>),
    Json(<<Img("img-600", 600, 600), Img("img-300", 300, 300), Img("img-600b", 600, 600)>>),
    Json(<<Img("img-600", 600, 600), Img("img-300", 300, 300)>>),
    Json(<<Img("img-0", 0, 0)>>),
    Json(<<Img("img-300", 300, 300), NullDims("img-null")>>) }

\* images of an Amazon product page
AmazonImageDocs ==
  { [EmptyDoc EXCEPT !.productTitle = Str(T_HELLO), !.imgDynamic = dyn, !.imgSrc = src, !.ogImage = og] :
      dyn \in DynamicImages,
      src \in {Undef, U("https://m.media-amazon.com/src.jpg")},
      og \in {Undef, U("https://example.com/og.jpg")} }

\* the Packt free-learning page
PacktDocs ==
  { [EmptyDoc EXCEPT !.packtTitle1 = t, !.packtAuthor1 = a, !.packtImage1 = i,
                     !.packtPubDate = d, !.packtPages = d, !.canonical = c] :
      t \in {EmptyStr, Str(LIT_FREE_EBOOK \o <<" ", "-", " ">> \o T_HELLO)},
      a \in {EmptyStr, Str(<<"B", "y", " ">> \o T_SOME_USER)},
      i \in {Undef, U("https://static.packt-cdn.com/cover.png")},
      d \in {EmptyStr, Str(LIT_PAGES \o <<" ", "3", "5", "0">>)},
      c \in {Undef, U("https://www.packtpub.com/free-learning")} }

Docs == SignalDocs \cup UrlDocs \cup LeadDocs \cup AmazonDescDocs \cup AmazonImageDocs \cup PacktDocs

\* HTTP statuses of the primary fetch
Statuses == { <<200, "OK">>, <<403, "Forbidden">>, <<503, "Service Unavailable">> }

Unreadable == [t |-> "unreadable"]
Response(st, body) ==
  [kind |-> "response", status |-> st[1], statusText |-> st[2],
   ok |-> (st[1] >= 200 /\ st[1] <= 299), body |-> body]

\* what fetch(targetUrl) can do: throw (always, for a string that is not a
\* URL), or respond with a status and a body that response.text() reads or
\* throws on
TargetReplies ==
  {Threw} \cup { Response(st, body) : st \in Statuses, body \in Docs \cup {Unreadable} }

PrimaryReplies(u) == IF ~u.valid THEN {Threw} ELSE TargetReplies

YouTubeReplies ==
  { Threw, Reply(FALSE, Invalid), Reply(TRUE, Invalid), Reply(TRUE, Null),
    Reply(FALSE, Obj([title |-> Str(T_HELLO), author_name |-> Str(T_SOME_USER), thumbnail_url |-> Undef])) } \cup
  { Reply(TRUE, Obj([title |-> a, author_name |-> b, thumbnail_url |-> c])) :
      a \in {Undef, Str(T_HELLO)}, b \in {Undef, Str(T_SOME_USER)},
      c \in {Undef, U("https://i.ytimg.com/vi/abc/hqdefault.jpg")} }

Arr(items) == [t |-> "array", items |-> items]

TweetMedia ==
  { Undef,
    Obj([photos |-> Arr(<<Obj([url |-> U("https://pbs.twimg.com/photo.jpg")])>>), videos |-> Undef]),
    Obj([photos |-> Arr(<<Obj([url |-> Undef])>>), videos |-> Undef]),
    Obj([photos |-> Arr(<<Null>>), videos |-> Undef]),
    Obj([photos |-> Arr(<<>>), videos |-> Arr(<<Obj([thumbnail_url |-> U("https://pbs.twimg.com/thumb.jpg")])>>)]),
    Obj([photos |-> Undef, videos |-> Arr(<<Obj([thumbnail_url |-> Undef])>>)]),
    Obj([photos |-> Undef, videos |-> Arr(<<Null>>)]) }

Tweets ==
  { Obj([text |-> x, author |-> a, media |-> m]) :
      x \in {Undef, Str(T_HELLO_WORLD), Str(LongText)},
      a \in {Undef, Obj([name |-> Undef, screen_name |-> Str(<<"someuser">>)]),
             Obj([name |-> Str(T_SOME_USER), screen_name |-> Str(<<"someuser">>)])},
      m \in TweetMedia }

FxTwitterReplies ==
  { Threw, Reply(FALSE, Invalid), Reply(TRUE, Invalid), Reply(TRUE, Null),
    Reply(TRUE, Obj([tweet |-> Undef])), Reply(TRUE, Obj([tweet |-> Null])),
    Reply(FALSE, Obj([tweet |-> Obj([text |-> Str(T_HELLO_WORLD), author |-> Undef, media |-> Undef])])) } \cup
  { Reply(TRUE, Obj([tweet |-> tw])) : tw \in Tweets }

Fragment(text) == [t |-> "html", blockquoteP |-> text]

TwitterOEmbedReplies ==
  { Threw, Reply(FALSE, Invalid), Reply(TRUE, Invalid), Reply(TRUE, Null),
    Reply(FALSE, Obj([html |-> Fragment(T_HELLO_WORLD), author_name |-> Str(T_SOME_USER), url |-> Undef])) } \cup
  { Reply(TRUE, Obj([html |-> h, author_name |-> a, url |-> u])) :
      h \in {Undef, Fragment(<<>>), Fragment(T_HELLO_WORLD \o <<" ">>)},
      a \in {Undef, Str(T_SOME_USER)},
      u \in {Undef, U("https://twitter.com/someuser/status/12345")} }

MicrolinkData ==
  { Obj([title |-> a, description |-> d, image |-> m[1], logo |-> m[2], url |-> u,
         author |-> w[1], publisher |-> w[2]]) :
      a \in {Undef, Str(T_HELLO)},
      d \in {Undef, Str(LongText)},
      m \in { <<Undef, Undef>>, <<Undef, Obj([url |-> U("https://example.com/logo.png")])>>,
              <<Obj([url |-> U("https://example.com/image.png")]),
                Obj([url |-> U("https://example.com/logo.png")])>> },
      u \in {Undef, U("https://example.com/from-microlink")},
      w \in { <<Undef, Undef>>, <<Str(T_SOME_USER), Str(T_HELLO)>> } }

MicrolinkReplies ==
  { Threw, Reply(FALSE, Invalid), Reply(TRUE, Invalid), Reply(TRUE, Null),
    Reply(TRUE, Obj([status |-> "fail", data |-> Undef])),
    Reply(TRUE, Obj([status |-> "success", data |-> Undef])),
    Reply(TRUE, Obj([status |-> "success", data |-> Null])),
    Reply(FALSE, Obj([status |-> "success",
                      data |-> Obj([title |-> Str(T_HELLO), description |-> Undef, image |-> Undef,
                                    logo |-> Undef, url |-> Undef, author |-> Undef,
                                    publisher |-> Undef])])) } \cup
  { Reply(TRUE, Obj([status |-> s, data |-> d])) : s \in {"success", "error"}, d \in MicrolinkData }


\* ------------------------------------------------------------------------
\* One call of scrapeUrl as a state machine.  A step is the code between two
\* awaits: the call up to its first network request, and the arrival of
\* each reply up to the next request or to the return.
\* ------------------------------------------------------------------------
VARIABLES
  pc,          \* where the call is: idle, awaiting a reply, or done
  targetUrl,   \* the argument of scrapeUrl
  calls,       \* the network requests issued so far, in order
  replies,     \* the replies received so far, in the order of calls
  result,      \* pending, the record returned, or the error thrown
  probe,       \* the input of a function checked on its own, and its outcome
  sessions,    \* two calls of scrapeUrl in progress at once, each as a record
               \* of its own pc, targetUrl, calls, replies and result
  route,       \* a request to GET /api/extract and the response to it
  card,        \* the PreviewCard component: its props, its state, the calls
               \* of onEdit and the clipboard
  page         \* the page component: its state and its calls of extractData
               \* in flight

scrapeVars == <<pc, targetUrl, calls, replies, result>>
uiVars == <<route, card, page>>

\* no request to the route, no card and no page mounted
NoRequest == [stage |-> "none"]
NoCard == [mounted |-> FALSE]
NoPage == [mounted |-> FALSE]

InitUi ==
  /\ route = NoRequest
  /\ card = NoCard
  /\ page = NoPage

NoUrl == [raw |-> EmptyStr, valid |-> FALSE, host |-> <<>>, path |-> <<>>, query |-> <<>>]

\* no title under test
NoProbe == [lead |-> <<>>, phrase |-> <<>>, casing |-> "lower", cut |-> FALSE, tail |-> <<>>,
            checked |-> FALSE, verdict |-> FALSE]

Pending == [kind |-> "pending"]

\* a call of scrapeUrl not yet made
IdleCall == [pc |-> "idle", targetUrl |-> NoUrl, calls |-> <<>>, replies |-> <<>>, result |-> Pending]
Returned(rec) == [kind |-> "record", rec |-> rec]
Thrown(message) == [kind |-> "error", message |-> message]

\* the TypeError of a fetch or of a body read that fails
NetworkError == <<"fetch failed">>

\* `Failed to fetch URL: ${response.status} ${response.statusText}`
HttpError(response) ==
  <<"Failed to fetch URL: ", ToString(response.status), " ", response.statusText>>

InitScrape ==
  /\ pc = "idle"
  /\ targetUrl = NoUrl
  /\ calls = <<>>
  /\ replies = <<>>
  /\ result = Pending
  /\ sessions = [i \in {1, 2} |-> IdleCall]

Finish(r) ==
  /\ result' = r
  /\ pc' = "done"
  /\ calls' = calls

Request(endpoint, next) ==
  /\ calls' = Append(calls, endpoint)
  /\ pc' = next
  /\ result' = result

\* scrapeUrl(targetUrl) up to its first await
scrapeUrl(u) ==
  /\ pc = "idle"
  /\ targetUrl' = u
  /\ replies' = replies
  /\ IF isYouTubeUrl(u) THEN Request("youtube-oembed", "awaitYouTubeOEmbed")
     ELSE IF isTwitterUrl(u) THEN
       IF tweetMatch(u) THEN Request("fxtwitter", "awaitFxTwitter")
       ELSE Request("twitter-oembed", "awaitTwitterOEmbed")
     ELSE Request("target", "awaitFetch")

Call ==
  /\ \E u \in Urls : scrapeUrl(u)
  /\ UNCHANGED <<probe, sessions, uiVars>>

\* extractYouTubeData after `await fetch(oembedUrl)`
YouTubeOEmbedReturns ==
  /\ pc = "awaitYouTubeOEmbed"
  /\ \E reply \in YouTubeReplies :
       /\ replies' = Append(replies, reply)
       /\ Finish(Returned(extractYouTubeData(targetUrl, reply)))
  /\ UNCHANGED <<targetUrl, probe, sessions, uiVars>>

\* mutant: a failed mirror call is tried once more before oEmbed
FxTwitterReturns_Retries ==
  /\ pc = "awaitFxTwitter"
  /\ \E reply \in FxTwitterReplies :
       /\ replies' = Append(replies, reply)
       /\ IF FxSucceeds(reply)
            THEN Finish(Returned(FxRecord(targetUrl, reply)))
          ELSE IF Len(calls) < 2
            THEN Request("fxtwitter", "awaitFxTwitter")
          ELSE Request("twitter-oembed", "awaitTwitterOEmbed")
  /\ UNCHANGED <<targetUrl, probe, sessions, uiVars>>

\* extractTwitterData after `await fetch(api.fxtwitter.com/...)`
FxTwitterReturns ==
  /\ pc = "awaitFxTwitter"
  /\ \E reply \in FxTwitterReplies :
       /\ replies' = Append(replies, reply)
       /\ IF FxSucceeds(reply)
            THEN Finish(Returned(FxRecord(targetUrl, reply)))
            ELSE Request("twitter-oembed", "awaitTwitterOEmbed")
  /\ UNCHANGED <<targetUrl, probe, sessions, uiVars>>

\* extractTwitterData after `await fetch(oembedUrl)`
TwitterOEmbedReturns ==
  /\ pc = "awaitTwitterOEmbed"
  /\ \E reply \in TwitterOEmbedReplies :
       /\ replies' = Append(replies, reply)
       /\ Finish(Returned(TwitterOEmbedRecord(targetUrl, reply)))
  /\ UNCHANGED <<targetUrl, probe, sessions, uiVars>>

\* The record of the non-success branch, from the HTML received
PartialRecord(doc, u) ==
  [ title |-> extractTitle(doc),
    description |-> extractDescription(doc),
    image |-> extractImage(doc),
    url |-> extractCanonicalUrl(doc, u.raw),
    author |-> extractAuthor(doc),
    publicationDate |-> Null,
    pages |-> Null ]

\* mutant: the challenge test is left out
PartialUsable_NoChallengeCheck(doc) ==
  \/ Truthy(extractTitle(doc))
  \/ Truthy(extractDescription(doc))
  \/ Truthy(extractImage(doc))

\* mutant: only the title counts as a signal
PartialUsable_TitleOnly(doc) ==
  /\ ~isChallengePage(extractTitle(doc))
  /\ Truthy(extractTitle(doc))

\* !isChallengePage && (title || description || image)
PartialUsable(doc) ==
  /\ ~isChallengePage(extractTitle(doc))
  /\ \/ Truthy(extractTitle(doc))
     \/ Truthy(extractDescription(doc))
     \/ Truthy(extractImage(doc))

\* mutant: the Packt extractor is chosen by the host alone
RouteRecord_PacktByHost(doc, u) ==
  IF u.valid /\ StripWww(u.host) = <<"packtpub","com">> THEN extractPacktData(doc, u.raw)
  ELSE IF isAmazonUrl(u) THEN extractAmazonData(doc, u.raw)
  ELSE GenericRecord(doc, u.raw)

\* the routing of the success branch
RouteRecord(doc, u) ==
  IF isPacktFreeLearningUrl(u) THEN extractPacktData(doc, u.raw)
  ELSE IF isAmazonUrl(u) THEN extractAmazonData(doc, u.raw)
  ELSE GenericRecord(doc, u.raw)

\* mutant: a failure of the primary fetch is absorbed as the vendor
\* extractors absorb theirs
FetchReturns_AbsorbsThrow ==
  /\ pc = "awaitFetch"
  /\ \E reply \in PrimaryReplies(targetUrl) :
       /\ replies' = Append(replies, reply)
       /\ IF reply.kind = "throw" \/ reply.body = Unreadable
            THEN Finish(Returned(MinimalRecord(targetUrl.raw)))
          ELSE IF ~reply.ok
            THEN IF PartialUsable(reply.body)
                   THEN Finish(Returned(PartialRecord(reply.body, targetUrl)))
                   ELSE Request("microlink", "awaitMicrolink")
          ELSE Finish(Returned(RouteRecord(reply.body, targetUrl)))
  /\ UNCHANGED <<targetUrl, probe, sessions, uiVars>>

\* scrapeUrl after `await fetch(targetUrl)` and `await response.text()`
FetchReturns ==
  /\ pc = "awaitFetch"
  /\ \E reply \in PrimaryReplies(targetUrl) :
       /\ replies' = Append(replies, reply)
       /\ IF reply.kind = "throw" \/ reply.body = Unreadable
            THEN Finish(Thrown(NetworkError))
          ELSE IF ~reply.ok
            THEN IF PartialUsable(reply.body)
                   THEN Finish(Returned(PartialRecord(reply.body, targetUrl)))
                   ELSE Request("microlink", "awaitMicrolink")
          ELSE Finish(Returned(RouteRecord(reply.body, targetUrl)))
  /\ UNCHANGED <<targetUrl, probe, sessions, uiVars>>

\* mutant: any record of the fallback is returned
MicrolinkUsable_AnyRecord(microlinkData) ==
  microlinkData # Null

\* microlinkData && (microlinkData.title || microlinkData.description)
MicrolinkUsable(microlinkData) ==
  /\ microlinkData # Null
  /\ (Truthy(microlinkData.title) \/ Truthy(microlinkData.description))

\* mutant: the throw at the end of the non-success branch is missing, so
\* the call falls off the branch with neither a record nor an error
MicrolinkReturns_NoThrow ==
  /\ pc = "awaitMicrolink"
  /\ \E reply \in MicrolinkReplies :
       LET microlinkData == extractWithMicrolink(targetUrl, reply)
       IN /\ replies' = Append(replies, reply)
          /\ IF MicrolinkUsable(microlinkData)
               THEN Finish(Returned(microlinkData))
               ELSE Finish(Pending)
  /\ UNCHANGED <<targetUrl, probe, sessions, uiVars>>

\* scrapeUrl after `await extractWithMicrolink(targetUrl)`
MicrolinkReturns ==
  /\ pc = "awaitMicrolink"
  /\ \E reply \in MicrolinkReplies :
       LET microlinkData == extractWithMicrolink(targetUrl, reply)
       IN /\ replies' = Append(replies, reply)
          /\ IF MicrolinkUsable(microlinkData)
               THEN Finish(Returned(microlinkData))
               ELSE Finish(Thrown(HttpError(replies[1])))
  /\ UNCHANGED <<targetUrl, probe, sessions, uiVars>>

vars == <<pc, targetUrl, calls, replies, result, probe, sessions, route, card, page>>

Init == InitScrape /\ probe = NoProbe /\ InitUi

Next ==
  \/ Call
  \/ YouTubeOEmbedReturns
  \/ FxTwitterReturns
  \/ TwitterOEmbedReturns
  \/ FetchReturns
  \/ MicrolinkReturns

Spec == Init /\ [][Next]_vars


\* ------------------------------------------------------------------------
\* The challenge-page test on its own: titles built from a known phrase
\* ------------------------------------------------------------------------
ToUpperChar(c) ==
  IF \E i \in 1..26 : LowerCase[i] = c
    THEN UpperCase[CHOOSE i \in 1..26 : LowerCase[i] = c]
    ELSE c

Cased(s, casing) ==
  CASE casing = "upper" -> [i \in 1..Len(s) |-> ToUpperChar(s[i])]
    [] casing = "title" -> [i \in 1..Len(s) |-> IF i = 1 THEN ToUpperChar(s[i]) ELSE s[i]]
    [] OTHER -> s

\* the title a probe stands for: lead, then the phrase (without its last
\* character when cut) in the given casing, then tail
ProbeTitle(p) ==
  p.lead \o Cased(IF p.cut THEN SubSeq(p.phrase, 1, Len(p.phrase) - 1) ELSE p.phrase, p.casing)
         \o p.tail

Probes ==
  { [lead |-> l, phrase |-> ph, casing |-> c, cut |-> k, tail |-> tl,
     checked |-> FALSE, verdict |-> FALSE] :
      l \in { <<>>, <<"X"," ">>, <<"E","r","r","o","r",":"," ">> },
      ph \in ChallengePhrases,
      c \in {"lower", "upper", "title"},
      k \in BOOLEAN,
      tl \in { <<>>, <<".",".",".">>, <<".",".","."," ","|"," ","E","x","a","m","p","l","e"," ","S","i","t","e">> } }

InitChallenge == InitScrape /\ InitUi /\ probe \in Probes

\* isChallengePage applied to the title of the probe
CheckChallenge ==
  /\ ~probe.checked
  /\ probe.phrase # <<>>
  /\ probe' = [probe EXCEPT !.checked = TRUE,
                            !.verdict = isChallengePage(Str(ProbeTitle(probe)))]
  /\ UNCHANGED <<scrapeVars, sessions, uiVars>>

NextChallenge == CheckChallenge

SpecChallenge == InitChallenge /\ [][NextChallenge]_vars


\* ------------------------------------------------------------------------
\* Properties
\* ------------------------------------------------------------------------
\* the reply to the primary fetch carries a document
PrimaryDocArrived ==
  /\ Len(replies) >= 1
  /\ calls[1] = "target"
  /\ replies[1].kind = "response"
  /\ replies[1].body # Unreadable

IsJsonObject(reply) == reply.kind = "response" /\ reply.json.t = "object"

CountCalls(endpoint) == Cardinality({i \in 1..Len(calls) : calls[i] = endpoint})

\* the URLs the replies received so far report: canonical link and og:url of
\* the page, and the url of the Twitter oEmbed and of the Microlink payload
DiscoveredUrls ==
  UNION { IF calls[i] = "target"
            THEN IF replies[i].kind = "response" /\ replies[i].body # Unreadable
                   THEN {replies[i].body.canonical, replies[i].body.ogUrl}
                   ELSE {}
          ELSE IF calls[i] = "twitter-oembed"
            THEN IF IsJsonObject(replies[i]) THEN {replies[i].json.url} ELSE {}
          ELSE IF calls[i] = "microlink"
            THEN IF IsJsonObject(replies[i]) /\ Truthy(replies[i].json.data)
                   THEN {replies[i].json.data.url}
                   ELSE {}
          ELSE {} : i \in 1..Len(replies) }

\* C1: whenever scrapeUrl returns a record, on any path, its url is a
\* non-empty string and is either a URL found in a reply (canonical link,
\* og:url, the url of the vendor or fallback payload) or the input URL.
C1_UrlNeverEmpty ==
  result.kind = "record" =>
    /\ IsString(result.rec.url)
    /\ result.rec.url.v # <<>>
    /\ result.rec.url \in DiscoveredUrls \cup {targetUrl.raw}

\* C1 witness: a record is returned whose url is a discovered one, and the
\* page also carried an empty canonical link or none
C1_Witness ==
  /\ result.kind = "record"
  /\ result.rec.url # targetUrl.raw
  /\ PrimaryDocArrived
  /\ ~Truthy(replies[1].body.canonical)

\* the precondition of C2: a non-success status, and a challenge title or
\* nothing useful among title, description and image
C2_Pre ==
  /\ PrimaryDocArrived
  /\ ~replies[1].ok
  /\ LET doc == replies[1].body
     IN \/ isChallengePage(extractTitle(doc))
        \/ /\ ~Truthy(extractTitle(doc))
           /\ ~Truthy(extractDescription(doc))
           /\ ~Truthy(extractImage(doc))

\* the fallback gave no usable signal: no success envelope with data, or
\* data with neither a title nor a description
C2_FallbackUnusable(reply) ==
  \/ reply.kind = "throw"
  \/ ~reply.ok
  \/ reply.json.t # "object"
  \/ reply.json.status # "success"
  \/ ~Truthy(reply.json.data)
  \/ (~Truthy(reply.json.data.title) /\ ~Truthy(reply.json.data.description))

MentionsStatus(message, status) ==
  \E i \in 1..Len(message) : message[i] = ToString(status)

\* C2: on a non-success status with a challenge title or nothing useful
\* extracted, the fallback is called exactly once and the local result is
\* not returned: the call ends with the fallback's record, or, when the
\* fallback gave no usable signal, with an error naming the HTTP status.
C2_FallbackThenHttpError ==
  C2_Pre =>
    /\ CountCalls("microlink") = 1
    /\ calls = <<"target", "microlink">>
    /\ pc = "done" =>
         /\ Len(replies) = 2
         /\ IF C2_FallbackUnusable(replies[2])
              THEN /\ result.kind = "error"
                   /\ MentionsStatus(result.message, replies[1].status)
              ELSE /\ result.kind = "record"
                   /\ result.rec.title = Or(replies[2].json.data.title, Null)
                   /\ result.rec.description = Or(replies[2].json.data.description, Null)
                   /\ result.rec.url = Or(replies[2].json.data.url, targetUrl.raw)

\* C2 witness: a challenge page with a description of its own, an unusable
\* fallback, and the call has failed
C2_Witness ==
  /\ C2_Pre
  /\ pc = "done"
  /\ isChallengePage(extractTitle(replies[1].body))
  /\ Truthy(extractDescription(replies[1].body))
  /\ C2_FallbackUnusable(replies[2])
  /\ result.kind = "error"

\* what C3 promises once its precondition holds
C3_PartialReturned ==
  /\ CountCalls("microlink") = 0
  /\ pc = "done"
  /\ result.kind = "record"
  /\ result.rec = PartialRecord(replies[1].body, targetUrl)

\* C3 as stated: on a non-success status, when the page is not a challenge
\* page and generic extraction yields at least one non-null signal (title,
\* description, image or author), the partial record is returned and the
\* fallback is never called.
C3_Original ==
  ( /\ PrimaryDocArrived
    /\ ~replies[1].ok
    /\ ~isChallengePage(extractTitle(replies[1].body))
    /\ \E f \in {"title", "description", "image", "author"} :
         PartialRecord(replies[1].body, targetUrl)[f] # Null )
  => C3_PartialReturned

C3_Pre ==
  /\ PrimaryDocArrived
  /\ ~replies[1].ok
  /\ ~isChallengePage(extractTitle(replies[1].body))
  /\ \E f \in {"title", "description", "image"} :
       LET x == PartialRecord(replies[1].body, targetUrl)[f]
       IN IsString(x) /\ x.v # <<>>

\* C3 (amended): on a non-success status, when the page is not a challenge
\* page and at least one of the resolved title, description and image is a
\* non-empty string, the partial record is returned and the fallback is
\* never called.
C3_PartialSuccess == C3_Pre => C3_PartialReturned

\* C3 witness: a partial record returned from a 403 page that has only an image
C3_Witness ==
  /\ C3_Pre
  /\ C3_PartialReturned
  /\ result.rec.title = Null
  /\ result.rec.description = Null

\* C4: the challenge test is true exactly for the titles that begin with a
\* known phrase, whatever its casing and whatever follows; a title where
\* text precedes the phrase, or where the phrase is incomplete, is not a
\* challenge.
C4_ChallengeIffPrefix ==
  probe.checked => (probe.verdict <=> (probe.lead = <<>> /\ ~probe.cut))

\* C4 witness: an upper-case phrase followed by more text is a challenge
C4_Witness ==
  /\ probe.checked
  /\ probe.verdict
  /\ probe.casing = "upper"
  /\ probe.tail # <<>>


\* the first tier of the social extractor has replied
FxReplied == Len(replies) >= 1 /\ calls[1] = "fxtwitter"

\* a success status with a post object
HasPost(reply) ==
  /\ reply.kind = "response"
  /\ reply.ok
  /\ reply.json.t = "object"
  /\ Truthy(reply.json.tweet)

HasItems(arr) == Truthy(arr) /\ Len(arr.items) > 0

\* the entry the image is read from (first photo, else first video) is null
FirstMediaNull(tweet) ==
  /\ Truthy(tweet.media)
  /\ \/ HasItems(tweet.media.photos) /\ tweet.media.photos.items[1] = Null
     \/ /\ ~HasItems(tweet.media.photos)
        /\ HasItems(tweet.media.videos)
        /\ tweet.media.videos.items[1] = Null

\* the call has returned a record built from the post of the first reply,
\* and the oEmbed endpoint was not called
C5_PostUsed ==
  /\ CountCalls("twitter-oembed") = 0
  /\ pc = "done"
  /\ result.kind = "record"
  /\ result.rec.description = Or(replies[1].json.tweet.text, Null)
  /\ result.rec.url = targetUrl.raw
  /\ calls = <<"fxtwitter">>

\* C5 as stated: when the mirror API replies with a success status and a
\* post object, the record is built from the post and oEmbed is never
\* called; oEmbed is called only after the first tier failed (threw,
\* non-success status, no post object) or for a URL of another shape.
C5_Original ==
  /\ (FxReplied /\ HasPost(replies[1])) => C5_PostUsed
  /\ CountCalls("twitter-oembed") > 0 =>
       \/ ~tweetMatch(targetUrl)
       \/ FxReplied /\ ~HasPost(replies[1])

\* C5 (amended): the same, for a post object whose first photo entry (or,
\* without photos, first video entry) is not null; a post whose entry is
\* null counts as a failure of the first tier.
C5_PostUsedVerbatim ==
  /\ (FxReplied /\ HasPost(replies[1]) /\ ~FirstMediaNull(replies[1].json.tweet)) => C5_PostUsed
  /\ CountCalls("twitter-oembed") > 0 =>
       \/ ~tweetMatch(targetUrl)
       \/ FxReplied /\ (~HasPost(replies[1]) \/ FirstMediaNull(replies[1].json.tweet))

\* C5 witness: a post without text but with a photo has been returned
C5_Witness ==
  /\ FxReplied
  /\ HasPost(replies[1])
  /\ C5_PostUsed
  /\ result.rec.description = Null
  /\ Truthy(result.rec.image)

AllNullExceptUrl(rec) ==
  /\ \A f \in {"title", "description", "image", "author", "publicationDate", "pages"} : rec[f] = Null
  /\ rec.url = targetUrl.raw

\* the oEmbed tier was the last one tried and it failed: the call threw, the
\* status was not a success, or the body was not a JSON object
OEmbedFailed ==
  /\ Len(replies) = Len(calls)
  /\ calls[Len(calls)] = "twitter-oembed"
  /\ LET reply == replies[Len(replies)]
     IN reply.kind = "throw" \/ ~reply.ok \/ reply.json.t # "object"

\* C6 as stated: the social extractor returns the record with every field
\* null except url whenever both tiers fail, and also whenever the URL does
\* not have the /<handle>/status/<id> shape.
C6_Original ==
  (pc = "done" /\ isTwitterUrl(targetUrl) /\ (OEmbedFailed \/ ~tweetMatch(targetUrl)))
    => (result.kind = "record" /\ AllNullExceptUrl(result.rec))

\* C6 (amended): the social extractor returns the record with every field
\* null except url whenever the oEmbed tier fails after the first tier
\* failed or was skipped because the URL has another shape.
C6_BothTiersFail ==
  (pc = "done" /\ isTwitterUrl(targetUrl) /\ OEmbedFailed)
    => (result.kind = "record" /\ AllNullExceptUrl(result.rec))

\* C6 witness: both tiers were called, the second replied with a non-success
\* status and a JSON body, and the minimal record was returned
C6_Witness ==
  /\ pc = "done"
  /\ calls = <<"fxtwitter", "twitter-oembed">>
  /\ OEmbedFailed
  /\ replies[2].kind = "response"
  /\ replies[2].json.t = "object"
  /\ result.kind = "record"
  /\ AllNullExceptUrl(result.rec)

VendorEndpoints == {"youtube-oembed", "fxtwitter", "twitter-oembed"}

VendorHosts ==
  { <<"youtube","com">>, <<"www","youtube","com">>, <<"youtu","be">>,
    <<"twitter","com">>, <<"www","twitter","com">>, <<"x","com">>, <<"www","x","com">> }

\* C7: for a URL on a video or short-post host, the target itself is never
\* fetched and the fallback is never called: every request goes to a vendor
\* API.
C7_VendorOnly ==
  (targetUrl.valid /\ targetUrl.host \in VendorHosts) =>
    \A i \in 1..Len(calls) : calls[i] \in VendorEndpoints

\* C7 witness: the extraction of a www.twitter.com URL is over
C7_Witness ==
  /\ pc = "done"
  /\ targetUrl.host = <<"www","twitter","com">>
  /\ Len(calls) >= 1

RecordFields == {"title", "description", "image", "url", "author", "publicationDate", "pages"}

\* C8: every record returned has all seven fields, each a string or null
C8_AllFieldsStringOrNull ==
  result.kind = "record" =>
    /\ DOMAIN result.rec = RecordFields
    /\ \A f \in RecordFields : result.rec[f].t \in {"string", "null"}

\* C9 as stated: on every path the description returned has at most 500
\* characters.
C9_Original ==
  (result.kind = "record" /\ IsString(result.rec.description))
    => Len(result.rec.description.v) <= 500

\* the success branch has routed an Amazon URL to the e-commerce extractor
AmazonReturned ==
  /\ PrimaryDocArrived
  /\ replies[1].ok
  /\ targetUrl.host = <<"www","amazon","es">>
  /\ result.kind = "record"

\* C9 (amended): the e-commerce extractor returns a description of at most
\* 500 characters: a text longer than 500 is returned as its first 497
\* characters followed by three dots, a shorter one unchanged (null when
\* empty).
C9_AmazonTruncation ==
  AmazonReturned =>
    LET raw == AmazonRawDescription(replies[1].body)
        d == result.rec.description
    IN IF Len(raw) > 500
         THEN /\ IsString(d)
              /\ Len(d.v) = 500
              /\ \A i \in 1..497 : d.v[i] = raw[i]
              /\ \A i \in 498..500 : d.v[i] = "."
         ELSE d = IF raw = <<>> THEN Null ELSE Str(raw)

\* C9 witness: an Amazon description longer than 500 characters was cut
C9_Witness ==
  /\ AmazonReturned
  /\ Len(AmazonRawDescription(replies[1].body)) > 500
  /\ Len(result.rec.description.v) = 500

\* the data-a-dynamic-image attribute is present and parses as a map from
\* URL to [width, height]
DynamicImageParsed(doc) ==
  /\ doc.imgDynamic.t = "json"
  /\ doc.imgDynamic.ok
  /\ \A i \in 1..Len(doc.imgDynamic.entries) : doc.imgDynamic.entries[i].dims # Null

Area(e) == e.dims[1] * e.dims[2]

\* the image returned is a candidate of maximal area
C10_LargestSelected ==
  LET entries == replies[1].body.imgDynamic.entries
  IN \E i \in 1..Len(entries) :
       /\ result.rec.image = entries[i].url
       /\ \A j \in 1..Len(entries) : Area(entries[j]) <= Area(entries[i])

\* C10 as stated: whenever the attribute parses, the image returned is a
\* candidate of maximal width x height.
C10_Original ==
  (AmazonReturned /\ DynamicImageParsed(replies[1].body)) => C10_LargestSelected

\* C10 (amended): whenever the attribute parses and at least one candidate
\* has a positive width x height, the image returned is a candidate of
\* maximal width x height.
C10_LargestImage ==
  ( /\ AmazonReturned
    /\ DynamicImageParsed(replies[1].body)
    /\ \E i \in 1..Len(replies[1].body.imgDynamic.entries) :
         Area(replies[1].body.imgDynamic.entries[i]) > 0 )
  => C10_LargestSelected

\* C10 witness: of a 600x600 and a 300x300 candidate, in this order, the
\* first was selected although the page has a src and an og:image
C10_Witness ==
  /\ AmazonReturned
  /\ DynamicImageParsed(replies[1].body)
  /\ Len(replies[1].body.imgDynamic.entries) = 2
  /\ Area(replies[1].body.imgDynamic.entries[1]) > Area(replies[1].body.imgDynamic.entries[2])
  /\ result.rec.image = replies[1].body.imgDynamic.entries[1].url
  /\ Truthy(replies[1].body.imgSrc)
  /\ Truthy(replies[1].body.ogImage)



\* the success branch has routed a URL that is neither Packt's nor Amazon's
\* to the generic reader
GenericReturned ==
  /\ PrimaryDocArrived
  /\ replies[1].ok
  /\ targetUrl.host \in { <<"example","com">>, <<"notyoutube","com">> }
  /\ result.kind = "record"

\* C11: on the generic path the description returned differs from the meta
\* description only when it is the trimmed text of a lead element that is
\* longer than 50 characters and strictly longer than the meta description;
\* the description returned is never shorter than the meta description.
C11_LeadImprovesOrNothing ==
  GenericReturned =>
    LET doc == replies[1].body
        meta == extractDescription(doc)
        d == result.rec.description
    IN /\ d # meta =>
            \E i \in 1..Len(LEAD_SELECTORS) :
              /\ IsString(doc.leads[i])
              /\ d = Str(Trim(doc.leads[i].v))
              /\ Len(d.v) > 50
              /\ IsString(meta) => Len(d.v) > Len(meta.v)
       /\ IsString(meta) => (IsString(d) /\ Len(d.v) >= Len(meta.v))

\* C11 witness: a page with a meta description, whose description returned
\* is a lead paragraph, found after a lead element of more than 50
\* characters that was passed over
C11_Witness ==
  /\ GenericReturned
  /\ IsString(extractDescription(replies[1].body))
  /\ result.rec.description # extractDescription(replies[1].body)
  /\ \E i \in 1..Len(LEAD_SELECTORS) :
       /\ IsString(replies[1].body.leads[i])
       /\ Len(Trim(replies[1].body.leads[i].v)) > 50
       /\ result.rec.description # Str(Trim(replies[1].body.leads[i].v))


\* the extraction of a URL on a video or short-post host is over
VendorDone == pc = "done" /\ targetUrl.valid /\ targetUrl.host \in VendorHosts

\* a vendor call failed: it threw, the status was not a success, or the body
\* was not a JSON object
TierFailed(reply) == reply.kind = "throw" \/ ~reply.ok \/ reply.json.t # "object"

\* a vendor reply that is a JSON object without any of the given fields
LacksFields(reply, fields) ==
  /\ IsJsonObject(reply)
  /\ \A f \in fields : reply.json[f] = Undef

\* the fields each vendor reply is read for
ExpectedFields(endpoint) ==
  CASE endpoint = "youtube-oembed" -> {"title", "author_name", "thumbnail_url"}
    [] endpoint = "fxtwitter" -> {"tweet"}
    [] endpoint = "twitter-oembed" -> {"html", "author_name", "url"}

PrimaryThrew ==
  /\ Len(replies) >= 1
  /\ calls[1] = "target"
  /\ IF replies[1].kind = "throw" THEN TRUE ELSE replies[1].body = Unreadable

\* C13: when the primary fetch throws or the body cannot be read, scrapeUrl
\* rejects with that failure, returns no record, and the target is the only
\* request made.
C13_FetchFailurePropagates ==
  PrimaryThrew =>
    /\ pc = "done"
    /\ result = Thrown(NetworkError)
    /\ calls = <<"target">>

\* C13 witness: the target answered 403 with a body that could not be read,
\* and scrapeUrl rejected
C13_Witness ==
  /\ PrimaryThrew
  /\ replies[1].kind = "response"
  /\ replies[1].status = 403
  /\ result.kind = "error"


\* the requests issued and not yet replied to
InFlight == Len(calls) - Len(replies)

\* C14: within one call of scrapeUrl at most one request is in flight, no
\* endpoint is requested twice, at most two requests are made, and a second
\* request is the fallback after a primary reply found insufficient or
\* oEmbed after a mirror reply found insufficient.
C14_SequentialNoRetry ==
  /\ InFlight \in {0, 1}
  /\ Len(calls) <= 2
  /\ \A i, j \in 1..Len(calls) : i # j => calls[i] # calls[j]
  /\ Len(calls) = 2 =>
       /\ Len(replies) >= 1
       /\ \/ /\ calls = <<"target", "microlink">>
             /\ PrimaryDocArrived
             /\ ~replies[1].ok
             /\ ~PartialUsable(replies[1].body)
          \/ /\ calls = <<"fxtwitter", "twitter-oembed">>
             /\ ~FxSucceeds(replies[1])

\* C14 witness: the fallback is in flight after the primary fetch was
\* replied to
C14_Witness ==
  /\ calls = <<"target", "microlink">>
  /\ Len(replies) = 1
  /\ pc = "awaitMicrolink"


\* ------------------------------------------------------------------------
\* One call of scrapeUrl when every request made is eventually replied to
\* ------------------------------------------------------------------------
\* every awaited fetch settles: it resolves with a response or rejects
Completion ==
  /\ WF_vars(YouTubeOEmbedReturns)
  /\ WF_vars(FxTwitterReturns)
  /\ WF_vars(TwitterOEmbedReturns)
  /\ WF_vars(FetchReturns)
  /\ WF_vars(MicrolinkReturns)

SpecLive == Init /\ [][Next]_vars /\ Completion

\* C15: when every request is eventually replied to, a call of scrapeUrl
\* that has started eventually is done, with a record returned or an error
\* thrown and nothing else; until then it has no outcome.
C15_Terminates ==
  /\ [](pc # "done" => result = Pending)
  /\ (pc # "idle") ~> (pc = "done" /\ result.kind \in {"record", "error"})

\* C15 witness: a call that made two requests is done with an error thrown
C15_Witness ==
  /\ pc = "done"
  /\ Len(calls) = 2
  /\ Len(replies) = 2
  /\ result.kind = "error"


\* the URLs of the Packt free-learning page and of Amazon among the inputs
OnPacktFreeLearning ==
  /\ targetUrl.host \in { <<"packtpub","com">>, <<"www","packtpub","com">> }
  /\ \E i \in 1..Len(targetUrl.path) : targetUrl.path[i] \in FreeLearningSegments

OnAmazon == targetUrl.host \in { <<"www","amazon","es">>, <<"smile","amazon","co","uk">> }

\* C16: the record returned after the primary fetch is the work of one
\* extractor: on a success status the Packt extractor for a packtpub.com
\* free-learning URL, else the Amazon extractor for an Amazon URL, else the
\* generic reader with the lead heuristic; on another status the generic
\* reader alone or, after it, the fallback, whatever the URL.
C16_OneExtractor ==
  (PrimaryDocArrived /\ result.kind = "record") =>
    LET doc == replies[1].body
        rec == result.rec
    IN IF replies[1].ok
         THEN /\ calls = <<"target">>
              /\ IF OnPacktFreeLearning THEN rec = extractPacktData(doc, targetUrl.raw)
                 ELSE IF OnAmazon THEN rec = extractAmazonData(doc, targetUrl.raw)
                 ELSE rec = GenericRecord(doc, targetUrl.raw)
         ELSE IF calls = <<"target">>
                THEN rec = PartialRecord(doc, targetUrl)
                ELSE /\ calls = <<"target", "microlink">>
                     /\ rec = extractWithMicrolink(targetUrl, replies[2])

\* C16 witness: a packtpub.com URL outside free-learning was answered with
\* a success status and a page that the Packt extractor and the generic
\* reader read differently, and the generic record was returned
C16_Witness ==
  /\ PrimaryDocArrived
  /\ replies[1].ok
  /\ targetUrl.host = <<"www","packtpub","com">>
  /\ ~OnPacktFreeLearning
  /\ result.kind = "record"
  /\ result.rec = GenericRecord(replies[1].body, targetUrl.raw)
  /\ result.rec # extractPacktData(replies[1].body, targetUrl.raw)
  /\ result.rec # extractAmazonData(replies[1].body, targetUrl.raw)


\* ------------------------------------------------------------------------
\* The site classifier on its own: the four predicates applied to a string
\* ------------------------------------------------------------------------
ClassifierDomains ==
  { <<"youtube","com">>, <<"youtu","be">>, <<"twitter","com">>, <<"x","com">>,
    <<"packtpub","com">>, <<"amazon","com">>, <<"amazon","co","uk">>, <<"amazon","org">>,
    <<"notamazon","es">>, <<"example","com">> }

\* The strings put to the classifier: https://<host>/<path>, which new URL
\* parses, and <host>/<path> without a scheme, on which new URL throws; of
\* the latter, host and path are the labels and segments the text shows.
ClassifierInputs ==
  { [raw |-> Str(<<IF v THEN "https://" ELSE "">> \o sub \o dom \o path),
     valid |-> v, host |-> sub \o dom, path |-> path, query |-> <<>>] :
      v \in BOOLEAN,
      sub \in { <<>>, <<"www">>, <<"m">> },
      dom \in ClassifierDomains,
      path \in { <<>>, <<"free-learning">>, <<"someuser","status","12345">> } }

\* the strategy scrapeUrl takes for a URL, by the order of its tests
Strategy(u) ==
  IF isYouTubeUrl(u) THEN "video"
  ELSE IF isTwitterUrl(u) THEN "social"
  ELSE IF isPacktFreeLearningUrl(u) THEN "publisher"
  ELSE IF isAmazonUrl(u) THEN "e-commerce"
  ELSE "generic"

InitClassify ==
  /\ InitScrape
  /\ InitUi
  /\ probe \in { [url |-> u, checked |-> FALSE, verdict |-> <<>>] : u \in ClassifierInputs }

\* the four predicates applied to the string of the probe
Classify ==
  /\ ~probe.checked
  /\ probe' = [probe EXCEPT !.checked = TRUE,
                            !.verdict = [ youtube |-> isYouTubeUrl(probe.url),
                                          twitter |-> isTwitterUrl(probe.url),
                                          packt |-> isPacktFreeLearningUrl(probe.url),
                                          amazon |-> isAmazonUrl(probe.url),
                                          strategy |-> Strategy(probe.url) ]]
  /\ UNCHANGED <<scrapeVars, sessions, uiVars>>

NextClassify == Classify

SpecClassify == InitClassify /\ [][NextClassify]_vars

\* C17: each of the four predicates of the classifier answers true or false
\* for every string, and for a string that new URL throws on all four
\* answer false, so that the string is treated as generic.
C17_ClassifierTotal ==
  probe.checked =>
    /\ \A p \in {"youtube", "twitter", "packt", "amazon"} : probe.verdict[p] \in BOOLEAN
    /\ ~probe.url.valid =>
         /\ \A p \in {"youtube", "twitter", "packt", "amazon"} : probe.verdict[p] = FALSE
         /\ probe.verdict.strategy = "generic"

\* C17 witness: a string on www.amazon.co.uk without a scheme was put to
\* the classifier and is generic, though the same host in a string that
\* parses is Amazon's
C17_Witness ==
  /\ probe.checked
  /\ ~probe.url.valid
  /\ probe.url.host = <<"www","amazon","co","uk">>
  /\ probe.verdict.strategy = "generic"
  /\ isAmazonUrl([probe.url EXCEPT !.valid = TRUE])


\* ------------------------------------------------------------------------
\* The remote fallback client on its own: extractWithMicrolink applied to a
\* reply of the service
\* ------------------------------------------------------------------------
\* payloads with one of image and logo, or of author and publisher, missing
\* or empty
PartialMicrolinkData ==
  { Obj([title |-> Str(T_HELLO), description |-> Undef, image |-> m[1], logo |-> m[2],
         url |-> Undef, author |-> w[1], publisher |-> w[2]]) :
      m \in { <<Obj([url |-> U("https://example.com/image.png")]), Undef>>,
              <<Obj([url |-> Undef]), Obj([url |-> U("https://example.com/logo.png")])>>,
              <<Obj([url |-> EmptyStr]), Obj([url |-> U("https://example.com/logo.png")])>> },
      w \in { <<Str(T_SOME_USER), Undef>>, <<Undef, Str(T_HELLO)>>, <<EmptyStr, Str(T_HELLO)>> } }

FallbackReplies ==
  MicrolinkReplies \cup
  { Reply(TRUE, Obj([status |-> s, data |-> d])) : s \in {"success", "error"}, d \in PartialMicrolinkData }

InitFallback ==
  /\ InitScrape
  /\ InitUi
  /\ probe \in { [url |-> u, reply |-> r, checked |-> FALSE, out |-> Null] :
                   u \in {v \in Urls : v.host \in { <<"example","com">>, <<"www","amazon","es">> }},
                   r \in FallbackReplies }

\* extractWithMicrolink(url) with the reply of the probe
CallFallback ==
  /\ ~probe.checked
  /\ probe' = [probe EXCEPT !.checked = TRUE,
                            !.out = extractWithMicrolink(probe.url, probe.reply)]
  /\ UNCHANGED <<scrapeVars, sessions, uiVars>>

NextFallback == CallFallback

SpecFallback == InitFallback /\ [][NextFallback]_vars

\* the service answered with a success status and an envelope of status
\* 'success' that has data
SuccessEnvelope(reply) ==
  /\ IsJsonObject(reply)
  /\ reply.ok
  /\ reply.json.status = "success"
  /\ Truthy(reply.json.data)

\* C18: the fallback client yields null or a whole record and nothing else;
\* null on a thrown call, a non-success status, a body that is no envelope,
\* an envelope whose status is not 'success' or that has no data; otherwise
\* a record whose image is that of the image field when it has one, else of
\* the logo field, and whose author is the author field when it has one,
\* else the publisher.
C18_FallbackAllOrNothing ==
  probe.checked =>
    LET out == probe.out
        data == probe.reply.json.data
    IN IF ~SuccessEnvelope(probe.reply) THEN out = Null
       ELSE /\ out # Null
            /\ DOMAIN out = RecordFields
            /\ out.image \in {UrlOf(data.image), UrlOf(data.logo), Null}
            /\ Truthy(UrlOf(data.image)) => out.image = UrlOf(data.image)
            /\ (~Truthy(UrlOf(data.image)) /\ Truthy(UrlOf(data.logo))) => out.image = UrlOf(data.logo)
            /\ out.author \in {data.author, data.publisher, Null}
            /\ Truthy(data.author) => out.author = data.author
            /\ (~Truthy(data.author) /\ Truthy(data.publisher)) => out.author = data.publisher

\* C18 witness: a success envelope with image and logo, author and
\* publisher, gave a record with the image and the author
C18_Witness ==
  /\ probe.checked
  /\ SuccessEnvelope(probe.reply)
  /\ Truthy(UrlOf(probe.reply.json.data.image))
  /\ Truthy(UrlOf(probe.reply.json.data.logo))
  /\ Truthy(probe.reply.json.data.author)
  /\ Truthy(probe.reply.json.data.publisher)
  /\ probe.out.image = probe.reply.json.data.image.url
  /\ probe.out.author = probe.reply.json.data.author
  /\ probe.out.image # probe.reply.json.data.logo.url
  /\ probe.out.author # probe.reply.json.data.publisher


\* ------------------------------------------------------------------------
\* The generic metadata reader on its own: the five field readers applied
\* to a document in which several sources of a field are present at once
\* ------------------------------------------------------------------------
TitleDocs ==
  { [EmptyDoc EXCEPT !.ogTitle = a, !.twitterTitle = b, !.titleText = c, !.h1Text = d] :
      a \in {Undef, EmptyStr, Str(<<" ","O","G"," ","t","i","t","l","e">>)},
      b \in {Undef, Str(<<"C","a","r","d"," ","t","i","t","l","e">>)},
      c \in {EmptyStr, Str(<<"P","a","g","e"," ","t","i","t","l","e"," ">>)},
      d \in {EmptyStr, Str(<<"H","e","a","d","i","n","g">>)} }

DescriptionDocs ==
  { [EmptyDoc EXCEPT !.ogDescription = a, !.twitterDescription = b, !.metaDescription = c] :
      a \in {Undef, EmptyStr, Str(<<"O","G"," ","d","e","s","c","r","i","p","t","i","o","n">>)},
      b \in {Undef, Str(<<"C","a","r","d"," ","d","e","s","c","r","i","p","t","i","o","n"," ">>)},
      c \in {Undef, Str(<<"M","e","t","a"," ","d","e","s","c","r","i","p","t","i","o","n">>)} }

ImageDocs ==
  { [EmptyDoc EXCEPT !.ogImage = a, !.twitterImage = b, !.articleImgSrc = c] :
      a \in {Undef, EmptyStr, U("https://example.com/og.jpg")},
      b \in {Undef, U("https://example.com/card.jpg")},
      c \in {Undef, U("/img/first.jpg")} }

AuthorDocs ==
  { [EmptyDoc EXCEPT !.articleAuthor = a, !.metaAuthor = b, !.itempropAuthorText = c,
                     !.bylineTexts = <<d1, d2, d3, d4>>] :
      a \in {Undef, Str(<<"A","r","t","i","c","l","e"," ","A","u","t","h","o","r">>)},
      b \in {Undef, Str(<<"M","e","t","a"," ","A","u","t","h","o","r">>)},
      c \in {EmptyStr, Str(<<" ","S","c","h","e","m","a"," ","A","u","t","h","o","r">>)},
      d1 \in {EmptyStr, Str(<<"D","o","t"," ","A","u","t","h","o","r">>)},
      d2 \in {EmptyStr, Str(<<"B","y"," ","L","i","n","e"," ">>)},
      d3 \in {EmptyStr, Str(<<"A","u","t","h","o","r"," ","N","a","m","e">>)},
      d4 \in {EmptyStr, Str(<<"R","e","l"," ","A","u","t","h","o","r">>)} }

LinkDocs ==
  { [EmptyDoc EXCEPT !.canonical = a, !.ogUrl = b] :
      a \in {Undef, EmptyStr, U("https://example.com/canonical")},
      b \in {Undef, U("https://example.com/og-url")} }

ReaderDocs == TitleDocs \cup DescriptionDocs \cup ImageDocs \cup AuthorDocs \cup LinkDocs

InitReader ==
  /\ InitScrape
  /\ InitUi
  /\ probe \in { [doc |-> d, url |-> u, checked |-> FALSE, out |-> Null] :
                   d \in ReaderDocs, u \in {v \in Urls : v.host = <<"example","com">>} }

\* extractTitle, extractDescription, extractImage, extractAuthor and
\* extractCanonicalUrl applied to the document of the probe
ReadDocument ==
  /\ ~probe.checked
  /\ probe' = [probe EXCEPT !.checked = TRUE, !.out = PartialRecord(probe.doc, probe.url)]
  /\ UNCHANGED <<scrapeVars, sessions, uiVars>>

NextReader == ReadDocument

SpecReader == InitReader /\ [][NextReader]_vars

\* a source is present: the attribute or text exists and is not empty
Present(x) == IsString(x) /\ x.v # <<>>

\* the first of the sources, in their order, that is present; Null if none
FirstPresent(sources) ==
  IF \E i \in 1..Len(sources) : Present(sources[i])
    THEN sources[CHOOSE i \in 1..Len(sources) :
                   Present(sources[i]) /\ \A j \in 1..(i - 1) : ~Present(sources[j])]
    ELSE Null

Trimmed(x) == IF x = Null THEN Null ELSE Str(Trim(x.v))

\* C19: each field of the generic reader is the value (trimmed, for the
\* text fields) of the first source present in the order of precedence:
\* title og:title, twitter:title, <title>, h1; description og, twitter,
\* meta; image og, twitter, first article image; author article:author,
\* meta author, itemprop author, .author, .byline, .author-name,
\* [rel=author]; url canonical link, og:url; and null (the original URL for
\* url) when no source is present.
C19_OrderedPrecedence ==
  probe.checked =>
    LET doc == probe.doc
        out == probe.out
        link == FirstPresent(<<doc.canonical, doc.ogUrl>>)
    IN /\ out.title = Trimmed(FirstPresent(<<doc.ogTitle, doc.twitterTitle, doc.titleText, doc.h1Text>>))
       /\ out.description =
            Trimmed(FirstPresent(<<doc.ogDescription, doc.twitterDescription, doc.metaDescription>>))
       /\ out.image = FirstPresent(<<doc.ogImage, doc.twitterImage, doc.articleImgSrc>>)
       /\ out.author =
            Trimmed(FirstPresent(<<doc.articleAuthor, doc.metaAuthor, doc.itempropAuthorText>>
                                   \o doc.bylineTexts))
       /\ out.url = IF link = Null THEN probe.url.raw ELSE link

\* C19 witness: a document with all four sources of the title was read and
\* the title is that of og:title, which differs from the other three
C19_Witness ==
  /\ probe.checked
  /\ \A x \in {probe.doc.ogTitle, probe.doc.twitterTitle, probe.doc.titleText, probe.doc.h1Text} :
       Present(x)
  /\ probe.out.title = Str(Trim(probe.doc.ogTitle.v))
  /\ probe.out.title \notin {Str(Trim(probe.doc.twitterTitle.v)), Str(Trim(probe.doc.titleText.v)),
                             Str(Trim(probe.doc.h1Text.v))}


\* ------------------------------------------------------------------------
\* Two calls of scrapeUrl in progress at once.  The steps of a call are
\* those of Spec, written as functions of the call's own record: scraper.ts
\* has no module-level binding that is assigned after load (USER_AGENT,
\* MICROLINK_API, BROWSER_HEADERS and LEAD_SELECTORS are only read), so a
\* step has nothing else to read or write.
\* ------------------------------------------------------------------------
\* scrapeUrl(u) up to its first await
Started(u) ==
  LET first == IF isYouTubeUrl(u) THEN <<"youtube-oembed", "awaitYouTubeOEmbed">>
               ELSE IF isTwitterUrl(u) THEN
                 IF tweetMatch(u) THEN <<"fxtwitter", "awaitFxTwitter">>
                 ELSE <<"twitter-oembed", "awaitTwitterOEmbed">>
               ELSE <<"target", "awaitFetch">>
  IN [pc |-> first[2], targetUrl |-> u, calls |-> <<first[1]>>, replies |-> <<>>, result |-> Pending]

\* the call returns or throws on the reply
Settled(c, reply, r) == [c EXCEPT !.pc = "done", !.replies = Append(c.replies, reply), !.result = r]

\* the call makes its next request on the reply
Asks(c, reply, endpoint, next) ==
  [c EXCEPT !.pc = next, !.replies = Append(c.replies, reply), !.calls = Append(c.calls, endpoint)]

\* the call from the arrival of a reply to its next await or its end
Resumed(c, reply) ==
  CASE c.pc = "awaitYouTubeOEmbed" ->
         Settled(c, reply, Returned(extractYouTubeData(c.targetUrl, reply)))
    [] c.pc = "awaitFxTwitter" ->
         IF FxSucceeds(reply)
           THEN Settled(c, reply, Returned(FxRecord(c.targetUrl, reply)))
           ELSE Asks(c, reply, "twitter-oembed", "awaitTwitterOEmbed")
    [] c.pc = "awaitTwitterOEmbed" ->
         Settled(c, reply, Returned(TwitterOEmbedRecord(c.targetUrl, reply)))
    [] c.pc = "awaitFetch" ->
         IF reply.kind = "throw" \/ reply.body = Unreadable
           THEN Settled(c, reply, Thrown(NetworkError))
         ELSE IF ~reply.ok
           THEN IF PartialUsable(reply.body)
                  THEN Settled(c, reply, Returned(PartialRecord(reply.body, c.targetUrl)))
                  ELSE Asks(c, reply, "microlink", "awaitMicrolink")
         ELSE Settled(c, reply, Returned(RouteRecord(reply.body, c.targetUrl)))
    [] c.pc = "awaitMicrolink" ->
         LET microlinkData == extractWithMicrolink(c.targetUrl, reply)
         IN IF MicrolinkUsable(microlinkData)
              THEN Settled(c, reply, Returned(microlinkData))
              ELSE Settled(c, reply, Thrown(HttpError(c.replies[1])))

\* the call of scrapeUrl(u) run alone on the replies rs, in their order
RECURSIVE Replay(_, _)
Replay(c, rs) ==
  IF rs = <<>> \/ c.pc = "done" THEN c ELSE Replay(Resumed(c, Head(rs)), Tail(rs))

Alone(u, rs) == Replay(Started(u), rs)

\* the call of Spec is the call run alone on the replies it received
CallIsReplay ==
  pc # "idle" =>
    [pc |-> pc, targetUrl |-> targetUrl, calls |-> calls, replies |-> replies, result |-> result]
      = Alone(targetUrl, replies)

PairUrls ==
  { u \in Urls : u.host \in { <<"www","youtube","com">>, <<"x","com">>, <<"example","com">> } }

\* what each endpoint can reply to a call of the pair
PairReplies(endpoint) ==
  CASE endpoint = "youtube-oembed" ->
         { Threw,
           Reply(TRUE, Obj([title |-> Str(T_HELLO), author_name |-> Str(T_SOME_USER),
                            thumbnail_url |-> Undef])) }
    [] endpoint = "fxtwitter" ->
         { Threw,
           Reply(TRUE, Obj([tweet |-> Obj([text |-> Str(T_HELLO_WORLD), author |-> Undef,
                                           media |-> Undef])])) }
    [] endpoint = "twitter-oembed" ->
         { Reply(FALSE, Invalid),
           Reply(TRUE, Obj([html |-> Fragment(T_HELLO_WORLD), author_name |-> Str(T_SOME_USER),
                            url |-> Undef])) }
    [] endpoint = "target" ->
         { Threw,
           Response(<<200, "OK">>, [EmptyDoc EXCEPT !.ogTitle = Str(T_HELLO)]),
           Response(<<403, "Forbidden">>, [EmptyDoc EXCEPT !.titleText = Str(T_JUST_A_MOMENT)]),
           Response(<<503, "Service Unavailable">>, EmptyDoc) }
    [] endpoint = "microlink" ->
         { Threw,
           Reply(TRUE, Obj([status |-> "success",
                            data |-> Obj([title |-> Str(T_HELLO), description |-> Undef,
                                          image |-> Undef, logo |-> Undef, url |-> Undef,
                                          author |-> Undef, publisher |-> Undef])])) }

\* call i is made
SessionStarts(i) ==
  /\ sessions[i].pc = "idle"
  /\ \E u \in PairUrls : sessions' = [sessions EXCEPT ![i] = Started(u)]
  /\ UNCHANGED <<scrapeVars, probe, uiVars>>

\* mutant: the response of the primary fetch is kept in a binding of the
\* module, so that the error thrown after the fallback names the status
\* the other call received
SessionResumes_SharedResponse(i) ==
  /\ sessions[i].pc \notin {"idle", "done"}
  /\ \E reply \in PairReplies(sessions[i].calls[Len(sessions[i].calls)]) :
       LET c == Resumed(sessions[i], reply)
           other == sessions[3 - i]
           shared == /\ c.result.kind = "error"
                     /\ Len(c.calls) = 2
                     /\ Len(other.replies) >= 1
                     /\ other.calls[1] = "target"
                     /\ other.replies[1].kind = "response"
       IN sessions' = [sessions EXCEPT ![i] =
                         IF shared THEN [c EXCEPT !.result = Thrown(HttpError(other.replies[1]))]
                         ELSE c]
  /\ UNCHANGED <<scrapeVars, probe, uiVars>>

\* the reply call i is waiting for arrives
SessionResumes(i) ==
  /\ sessions[i].pc \notin {"idle", "done"}
  /\ \E reply \in PairReplies(sessions[i].calls[Len(sessions[i].calls)]) :
       sessions' = [sessions EXCEPT ![i] = Resumed(sessions[i], reply)]
  /\ UNCHANGED <<scrapeVars, probe, uiVars>>

NextPair == \E i \in {1, 2} : SessionStarts(i) \/ SessionResumes(i)

SpecPair == Init /\ [][NextPair]_vars

RouteParams ==
  { Null, NoUrl } \cup
  { u \in Urls : \/ ~u.valid
                 \/ u.host \in { <<"example","com">>, <<"www","youtube","com">>, <<"x","com">> } }

\* NextResponse.json(body, { status })
Responded(param, status, body) ==
  [stage |-> "responded", param |-> param, status |-> status, body |-> body]

LIT_URL_REQUIRED == <<"URL parameter is required">>
LIT_INVALID_URL == <<"Invalid URL format">>

\* the partial record of the 422 response
PartialOf(url) ==
  [title |-> Null, description |-> Null, image |-> Null, url |-> url, author |-> Null]

\* mutant: the parameter is not put to new URL before scrapeUrl is called
GET_NoValidation(param) ==
  /\ route.stage = "none"
  /\ pc = "idle"
  /\ IF param = Null \/ ~Truthy(param.raw)
       THEN /\ route' = Responded(param, 400, [error |-> LIT_URL_REQUIRED])
            /\ UNCHANGED scrapeVars
       ELSE /\ route' = [stage |-> "awaitScrape", param |-> param]
            /\ scrapeUrl(param)
  /\ UNCHANGED <<probe, sessions, card, page>>

\* GET(request) up to `await scrapeUrl(url)`
GET(param) ==
  /\ route.stage = "none"
  /\ pc = "idle"
  /\ IF param = Null \/ ~Truthy(param.raw)
       THEN /\ route' = Responded(param, 400, [error |-> LIT_URL_REQUIRED])
            /\ UNCHANGED scrapeVars
     ELSE IF ~param.valid
       THEN /\ route' = Responded(param, 400, [error |-> LIT_INVALID_URL])
            /\ UNCHANGED scrapeVars
     ELSE /\ route' = [stage |-> "awaitScrape", param |-> param]
          /\ scrapeUrl(param)
  /\ UNCHANGED <<probe, sessions, card, page>>

\* GET once scrapeUrl has returned or thrown; what is thrown is an Error,
\* whose message is passed on
RouteResponds ==
  /\ route.stage = "awaitScrape"
  /\ pc = "done"
  /\ route' = IF result.kind = "record"
                THEN Responded(route.param, 200, result.rec)
                ELSE Responded(route.param, 422,
                               [error |-> result.message, partial |-> PartialOf(route.param.raw)])
  /\ UNCHANGED <<scrapeVars, probe, sessions, card, page>>

NextRoute ==
  \/ \E param \in RouteParams : GET(param)
  \/ YouTubeOEmbedReturns
  \/ FxTwitterReturns
  \/ TwitterOEmbedReturns
  \/ FetchReturns
  \/ MicrolinkReturns
  \/ RouteResponds

SpecRoute == Init /\ [][NextRoute]_vars

\* C21: the handler answers a missing, empty or unparsable url parameter
\* with 400 without calling scrapeUrl, and a rejection of scrapeUrl with
\* 422, the message of the error, and a partial record whose url is the
\* parameter and whose title, description, image and author are null.
C21_RouteErrors ==
  route.stage = "responded" =>
    IF route.param = Null \/ ~route.param.valid
      THEN /\ route.status = 400
           /\ pc = "idle"
           /\ calls = <<>>
      ELSE /\ pc = "done"
           /\ result.kind = "error" =>
                /\ route.status = 422
                /\ route.body.error = result.message
                /\ route.body.partial.url = route.param.raw
                /\ \A f \in {"title", "description", "image", "author"} :
                     route.body.partial[f] = Null
           /\ result.kind = "record" => route.status = 200

\* C21 witness: the handler answered 422 after scrapeUrl rejected with the
\* error of a 403 that the fallback could not make up for
C21_Witness ==
  /\ route.stage = "responded"
  /\ route.status = 422
  /\ calls = <<"target", "microlink">>
  /\ replies[1].status = 403
  /\ route.body.error = HttpError(replies[1])
  /\ route.body.partial.url = route.param.raw


\* ------------------------------------------------------------------------
\* The PreviewCard component.  Texts are sequences of characters; an event
\* is a click, an input, a change of props, or the end of a clipboard write
\* or of the timer; a step is the handler of the event with the render and
\* the effects that follow it.
\* ------------------------------------------------------------------------
MaxEvents == 5

CardTitles == { <<"H","i">>, <<"N","e","w"," ","*">> }
CardDescriptions == { <<>>, <<"T","e","x","t">> }
CardUrls == { <<"https://example.com/a">>, <<"https://example.com/b">> }

\* the title, description and url passed in as props
CardProps ==
  { [title |-> t, description |-> d, url |-> u] :
      t \in CardTitles, d \in CardDescriptions, u \in CardUrls }

\* the component after its first render: the useState initial values
MountedCard(props) ==
  [ mounted |-> TRUE, props |-> props,
    isEditing |-> FALSE,
    editTitle |-> props.title, editDescription |-> props.description, editUrl |-> props.url,
    copied |-> FALSE, format |-> "whatsapp",
    onEditCalls |-> <<>>,      \* the arguments onEdit was called with, in order
    writing |-> Null,          \* the text of a clipboard write not yet settled
    clipboard |-> Null,
    event |-> "mount", n |-> 0,  \* the last event and the number of events
    saves |-> 0,               \* the number of clicks on Save
    callsAtEdit |-> 0,         \* the number of onEdit calls when edit mode was entered
    changes |-> 0 ]            \* the number of field changes since edit mode was entered

\* the event is counted
After(c, name) == [c EXCEPT !.event = name, !.n = c.n + 1]

\* mutant: WhatsApp and Telegram are swapped
formatTitle_Swapped(text, fmt) ==
  IF fmt = "whatsapp" THEN <<"*", "*">> \o text \o <<"*", "*">> ELSE <<"*">> \o text \o <<"*">>

\* fmt === 'whatsapp' ? `*${text}*` : `**${text}**`
formatTitle(text, fmt) ==
  IF fmt = "whatsapp" THEN <<"*">> \o text \o <<"*">> ELSE <<"*", "*">> \o text \o <<"*", "*">>

\* `${formatTitle(editTitle, format)}\n\n${editDescription}\n\n${editUrl}`
formattedText(c) ==
  formatTitle(c.editTitle, c.format) \o <<"\n", "\n">> \o c.editDescription
    \o <<"\n", "\n">> \o c.editUrl

\* the effect on [title, description, url]: the form follows the props
SyncedTo(c, props) ==
  [c EXCEPT !.props = props,
            !.editTitle = props.title, !.editDescription = props.description,
            !.editUrl = props.url]

CardUnchanged == UNCHANGED <<scrapeVars, probe, sessions, route, page>>

\* onClick of "Editar detalles": setIsEditing(true)
ClickEdit ==
  /\ card.mounted /\ card.n < MaxEvents
  /\ ~card.isEditing
  /\ card' = [After(card, "edit") EXCEPT !.isEditing = TRUE,
                                         !.callsAtEdit = Len(card.onEditCalls),
                                         !.changes = 0]
  /\ CardUnchanged

\* onChange of the three inputs of the form
ChangeTitle(v) ==
  /\ card.mounted /\ card.n < MaxEvents
  /\ card.isEditing
  /\ v # card.editTitle
  /\ card' = [After(card, "change") EXCEPT !.editTitle = v, !.changes = card.changes + 1]
  /\ CardUnchanged

ChangeDescription(v) ==
  /\ card.mounted /\ card.n < MaxEvents
  /\ card.isEditing
  /\ v # card.editDescription
  /\ card' = [After(card, "change") EXCEPT !.editDescription = v, !.changes = card.changes + 1]
  /\ CardUnchanged

ChangeUrl(v) ==
  /\ card.mounted /\ card.n < MaxEvents
  /\ card.isEditing
  /\ v # card.editUrl
  /\ card' = [After(card, "change") EXCEPT !.editUrl = v, !.changes = card.changes + 1]
  /\ CardUnchanged

\* the data handleSaveEdit passes to onEdit
EditData(c) == [title |-> c.editTitle, description |-> c.editDescription, url |-> c.editUrl]

\* mutant: onEdit is given the props, not the form
ClickSave_SendsProps ==
  /\ card.mounted /\ card.n < MaxEvents
  /\ card.isEditing
  /\ \E adopted \in BOOLEAN :
       LET saved == [After(card, "save") EXCEPT !.onEditCalls = Append(card.onEditCalls, card.props),
                                                !.isEditing = FALSE,
                                                !.saves = card.saves + 1]
       IN card' = IF adopted THEN SyncedTo(saved, card.props) ELSE saved
  /\ CardUnchanged

\* handleSaveEdit: onEdit(...), setIsEditing(false); the parent then passes
\* the data back as props (as the page does) or leaves the props as they are
ClickSave ==
  /\ card.mounted /\ card.n < MaxEvents
  /\ card.isEditing
  /\ \E adopted \in BOOLEAN :
       LET saved == [After(card, "save") EXCEPT !.onEditCalls = Append(card.onEditCalls, EditData(card)),
                                                !.isEditing = FALSE,
                                                !.saves = card.saves + 1]
       IN card' = IF adopted THEN SyncedTo(saved, EditData(card)) ELSE saved
  /\ CardUnchanged

\* mutant: Cancel leaves the form as it is
ClickCancel_KeepsForm ==
  /\ card.mounted /\ card.n < MaxEvents
  /\ card.isEditing
  /\ card' = [After(card, "cancel") EXCEPT !.isEditing = FALSE]
  /\ CardUnchanged

\* handleCancelEdit: the form is set back to the props, setIsEditing(false)
ClickCancel ==
  /\ card.mounted /\ card.n < MaxEvents
  /\ card.isEditing
  /\ card' = [SyncedTo(After(card, "cancel"), card.props) EXCEPT !.isEditing = FALSE]
  /\ CardUnchanged

\* onChange of the radio that is not checked: setFormat
SelectFormat(f) ==
  /\ card.mounted /\ card.n < MaxEvents
  /\ ~card.isEditing
  /\ f # card.format
  /\ card' = [After(card, "format") EXCEPT !.format = f]
  /\ CardUnchanged

\* handleCopy up to `await navigator.clipboard.writeText(formattedText)`
ClickCopy ==
  /\ card.mounted /\ card.n < MaxEvents
  /\ ~card.isEditing
  /\ card.writing = Null
  /\ card' = [After(card, "copy") EXCEPT !.writing = formattedText(card)]
  /\ CardUnchanged

\* the write resolves: setCopied(true), and the timer is set
WriteResolves ==
  /\ card.mounted /\ card.n < MaxEvents
  /\ card.writing # Null
  /\ card' = [After(card, "written") EXCEPT !.clipboard = card.writing, !.writing = Null,
                                            !.copied = TRUE]
  /\ CardUnchanged

\* the write rejects: the alert of the catch
WriteRejects ==
  /\ card.mounted /\ card.n < MaxEvents
  /\ card.writing # Null
  /\ card' = [After(card, "alert") EXCEPT !.writing = Null]
  /\ CardUnchanged

\* the timer of 2 seconds: setCopied(false)
CopiedTimeout ==
  /\ card.mounted /\ card.n < MaxEvents
  /\ card.copied
  /\ card' = [After(card, "timeout") EXCEPT !.copied = FALSE]
  /\ CardUnchanged

\* the parent renders the card with other props; the effect runs
PropsChange(props) ==
  /\ card.mounted /\ card.n < MaxEvents
  /\ props # card.props
  /\ card' = SyncedTo(After(card, "props"), props)
  /\ CardUnchanged

InitCard ==
  /\ InitScrape
  /\ probe = NoProbe
  /\ route = NoRequest
  /\ page = NoPage
  /\ card \in { MountedCard(props) : props \in CardProps }

NextCard ==
  \/ ClickEdit
  \/ \E v \in CardTitles : ChangeTitle(v)
  \/ \E v \in CardDescriptions : ChangeDescription(v)
  \/ \E v \in CardUrls : ChangeUrl(v)
  \/ ClickSave
  \/ ClickCancel
  \/ \E f \in {"whatsapp", "telegram"} : SelectFormat(f)
  \/ ClickCopy
  \/ WriteResolves
  \/ WriteRejects
  \/ CopiedTimeout
  \/ \E props \in CardProps : PropsChange(props)

SpecCard == InitCard /\ [][NextCard]_vars


\* C22: onEdit has been called exactly once per click on Save and by nothing
\* else; right after a click on Save its last call carries the title,
\* description and url of the edit form, and the card is in view mode.
C22_SaveCallsOnEditOnce ==
  card.mounted =>
    /\ Len(card.onEditCalls) = card.saves
    /\ card.event = "save" =>
         /\ card.onEditCalls[Len(card.onEditCalls)] = EditData(card)
         /\ ~card.isEditing

\* Save was clicked after the title was changed, the parent left the props
\* as they were, and the one call of onEdit carries the changed title.
C22_Witness ==
  /\ card.mounted
  /\ card.event = "save"
  /\ card.props.title = <<"H","i">>
  /\ Len(card.onEditCalls) = 1
  /\ card.onEditCalls[1].title = <<"N","e","w"," ","*">>

\* C23: right after Cancel, onEdit has not been called since edit mode was
\* entered, the card is in view mode, and the title, description and url it
\* displays are the props.
C23_CancelDiscards ==
  (card.mounted /\ card.event = "cancel") =>
    /\ Len(card.onEditCalls) = card.callsAtEdit
    /\ ~card.isEditing
    /\ card.editTitle = card.props.title
    /\ card.editDescription = card.props.description
    /\ card.editUrl = card.props.url

\* Cancel was clicked after two field changes, and the title displayed is
\* the title of the props.
C23_Witness ==
  /\ card.mounted
  /\ card.event = "cancel"
  /\ card.changes = 2
  /\ ~card.isEditing
  /\ card.editTitle = card.props.title

\* the text the claim describes: n asterisks on each side of the title
Stars(k) == [i \in 1..k |-> "*"]

BlankLine == <<"\n", "\n">>

ShareTextOf(c) ==
  LET k == IF c.format = "whatsapp" THEN 1 ELSE IF c.format = "telegram" THEN 2 ELSE 0
  IN Stars(k) \o c.editTitle \o Stars(k) \o BlankLine \o c.editDescription \o BlankLine \o c.editUrl

\* C24: the share text is the bold title, a blank line, the description, a
\* blank line and the url, with one asterisk on each side of the title for
\* WhatsApp and two for Telegram; Copy asks the clipboard to write that text
\* and the clipboard receives the text of the click; the format is WhatsApp
\* at mount and changes only by the selection of the other radio.
C24_ShareText ==
  /\ [](card.mounted =>
          /\ formattedText(card) = ShareTextOf(card)
          /\ card.event = "copy" => card.writing = ShareTextOf(card)
          /\ card.n = 0 => card.format = "whatsapp")
  /\ [][card.mounted =>
          /\ card'.clipboard # card.clipboard => card'.clipboard = card.writing
          /\ card'.format # card.format =>
               /\ card'.event = "format"
               /\ card'.n = card.n + 1
               /\ card'.format \in {"whatsapp", "telegram"}]_vars

\* The Telegram text of a card was written to the clipboard.
C24_Witness ==
  /\ card.mounted
  /\ card.event = "written"
  /\ card.format = "telegram"
  /\ card.editTitle = <<"H","i">>
  /\ card.editDescription = <<"T","e","x","t">>
  /\ card.clipboard = <<"*", "*", "H", "i", "*", "*", "\n", "\n", "T", "e", "x", "t", "\n", "\n", "https://example.com/a">>


\* the record returned is the work of the Packt extractor
ByPacktExtractor ==
  /\ PrimaryDocArrived
  /\ replies[1].ok
  /\ OnPacktFreeLearning

\* C25: publicationDate and pages are null in every record scrapeUrl
\* returns, except the records of the Packt free-learning extractor.
C25_DateAndPagesOnlyFromPackt ==
  (pc = "done" /\ result.kind = "record" /\ ~ByPacktExtractor) =>
    /\ result.rec.publicationDate = Null
    /\ result.rec.pages = Null

\* A page that carries the Packt page count was read by another extractor
\* on a success status, and the record has no pages.
C25_Witness ==
  /\ pc = "done"
  /\ result.kind = "record"
  /\ PrimaryDocArrived
  /\ replies[1].ok
  /\ ~OnPacktFreeLearning
  /\ Truthy(replies[1].body.packtPages)
  /\ result.rec.pages = Null


\* the call went to the remote fallback and is over
FallbackDone ==
  /\ pc = "done"
  /\ calls = <<"target", "microlink">>
  /\ Len(replies) = 2

\* C26: on the non-success path a record of the remote fallback is returned
\* only with a non-null title or description; a fallback record with
\* neither is discarded and the call rejects with the error of the HTTP
\* status of the primary response.
C26_FallbackNeedsText ==
  FallbackDone =>
    LET microlinkData == extractWithMicrolink(targetUrl, replies[2])
    IN /\ result.kind = "record" =>
            /\ result.rec = microlinkData
            /\ (result.rec.title # Null \/ result.rec.description # Null)
       /\ (microlinkData # Null /\ microlinkData.title = Null /\ microlinkData.description = Null) =>
            result = Thrown(HttpError(replies[1]))

\* The fallback gave a record with an image and an author and neither title
\* nor description, and the call rejected.
C26_Witness ==
  /\ FallbackDone
  /\ extractWithMicrolink(targetUrl, replies[2]) # Null
  /\ extractWithMicrolink(targetUrl, replies[2]).title = Null
  /\ extractWithMicrolink(targetUrl, replies[2]).description = Null
  /\ extractWithMicrolink(targetUrl, replies[2]).image # Null
  /\ extractWithMicrolink(targetUrl, replies[2]).author # Null
  /\ result.kind = "error"


\* the e-commerce extractor has returned its record
AmazonDone ==
  /\ pc = "done"
  /\ PrimaryDocArrived
  /\ replies[1].ok
  /\ OnAmazon
  /\ result.kind = "record"

\* JSON.parse or the loop over the entries throws on the attribute
DynamicImageThrows(dyn) ==
  \/ ~dyn.ok
  \/ \E i \in 1..Len(dyn.entries) : dyn.entries[i].dims = Null

\* the attribute parses, the loop runs to its end, and no entry has a
\* positive width x height
SelectsNoCandidate(dyn) ==
  /\ dyn.t = "json"
  /\ ~DynamicImageThrows(dyn)
  /\ \A i \in 1..Len(dyn.entries) : dyn.entries[i].dims[1] * dyn.entries[i].dims[2] <= 0

\* the image returned is the src attribute of the image element (in the
\* inputs the src differs from og:image and from every candidate)
SrcReturned ==
  /\ Truthy(replies[1].body.imgSrc)
  /\ result.rec.image = replies[1].body.imgSrc

\* C27 as stated: src is used only when the attribute is absent or its
\* parsing or processing throws.
C27_Original ==
  AmazonDone =>
    LET doc == replies[1].body
        dyn == doc.imgDynamic
    IN /\ SelectsNoCandidate(dyn) => result.rec.image = Or(doc.ogImage, Null)
       /\ SrcReturned => (dyn = Undef \/ (dyn.t = "json" /\ DynamicImageThrows(dyn)))

\* C27 (amended): when the data-a-dynamic-image attribute parses and selects
\* no candidate, the image is og:image or null and src is not used; src is
\* used only when the attribute is absent or empty, or when its parsing or
\* processing throws.
C27_SrcOnlyWithoutParsedImages ==
  AmazonDone =>
    LET doc == replies[1].body
        dyn == doc.imgDynamic
    IN /\ SelectsNoCandidate(dyn) => result.rec.image = Or(doc.ogImage, Null)
       /\ SrcReturned =>
            (dyn = Undef \/ dyn = EmptyStr \/ (dyn.t = "json" /\ DynamicImageThrows(dyn)))

\* The attribute held one candidate of 0 x 0, the element had a src and the
\* page no og:image, and the image returned is null.
C27_Witness ==
  /\ AmazonDone
  /\ replies[1].body.imgDynamic.t = "json"
  /\ SelectsNoCandidate(replies[1].body.imgDynamic)
  /\ Len(replies[1].body.imgDynamic.entries) = 1
  /\ Truthy(replies[1].body.imgSrc)
  /\ replies[1].body.ogImage = Undef
  /\ result.rec.image = Null


\* the first element matched by selector i has a text of more than 50
\* characters that is longer than the meta description
LeadQualifies(doc, meta, i) ==
  /\ IsString(doc.leads[i])
  /\ Len(Trim(doc.leads[i].v)) > 50
  /\ IsString(meta) => Len(Trim(doc.leads[i].v)) > Len(meta.v)

\* C28: the lead heuristic returns the text of the earliest selector, in the
\* order of the list, whose first match qualifies: an earlier match that
\* does not qualify does not end the scan, and a later text is never
\* returned when an earlier one qualifies; with no qualifying match the
\* meta description stays.
C28_EarliestQualifyingLead ==
  GenericReturned =>
    LET doc == replies[1].body
        meta == extractDescription(doc)
        qualifying == { i \in 1..Len(LEAD_SELECTORS) : LeadQualifies(doc, meta, i) }
    IN /\ qualifying # {} =>
            \E i \in qualifying :
              /\ \A j \in qualifying : i <= j
              /\ extractLongDescription(doc, meta) = Str(Trim(doc.leads[i].v))
              /\ result.rec.description = Str(Trim(doc.leads[i].v))
       /\ qualifying = {} =>
            /\ extractLongDescription(doc, meta) = Null
            /\ result.rec.description = meta

\* An earlier selector matched a text that does not qualify, and the text
\* of a later selector, which qualifies, was returned.
C28_Witness ==
  /\ GenericReturned
  /\ \E i, j \in 1..Len(LEAD_SELECTORS) :
       /\ i < j
       /\ IsString(replies[1].body.leads[i])
       /\ ~LeadQualifies(replies[1].body, extractDescription(replies[1].body), i)
       /\ LeadQualifies(replies[1].body, extractDescription(replies[1].body), j)
       /\ result.rec.description = Str(Trim(replies[1].body.leads[j].v))


\* ------------------------------------------------------------------------
\* The page component (HomeContent).  A step is an event handler or the
\* continuation of extractData after its awaits, with the render and the
\* effects that follow; the calls of extractData in flight are kept with
\* the URL each was started with.
\* ------------------------------------------------------------------------
MaxCalls == 2

\* the URLs the page is opened with or the user types
PageUrls == { u \in Urls : u.host \in { <<"example","com">>, <<"www","youtube","com">> } \/ ~u.valid }

\* searchParams.get('url'): null when the parameter is missing
PageParams == { Null, EmptyStr } \cup { u.raw : u \in PageUrls }

\* what the user leaves in the input
PageInputs ==
  { EmptyStr, Str(<<" ">>) } \cup { u.raw : u \in PageUrls }
    \cup { Str(<<" ">> \o u.raw.v \o <<" ">>) : u \in { v \in PageUrls : v.host = <<"example","com">> } }

LIT_SIN_TITULO == <<"Sin título">>
LIT_ERROR_AL_EXTRAER == <<"Error al extraer los datos">>
LIT_FAILED_TO_FETCH == <<"Failed to fetch">>
LIT_NOT_JSON == <<"Unexpected token < in JSON">>
LIT_FORBIDDEN == <<"Failed to fetch URL: 403 Forbidden">>

\* the body of a reply of /api/extract as the object response.json() gives
NoFields ==
  Obj([ title |-> Undef, description |-> Undef, image |-> Undef, url |-> Undef,
        author |-> Undef, error |-> Undef, partial |-> Undef ])

BodyOf(fields) == fields @@ NoFields

\* the replies to fetch('/api/extract?url=...') for a URL: a record with
\* status 200, the 422 with its partial record, the 400 of an unparsable
\* URL, a body that is not JSON, or a fetch that rejects
PageReplies(url) ==
  { Threw, Reply(FALSE, Invalid) } \cup
  IF \E u \in Urls : u.raw = url /\ u.valid
    THEN { Reply(TRUE, BodyOf([title |-> t, description |-> Null, image |-> i,
                               url |-> url, author |-> Null])) :
             t \in {Null, Str(T_HELLO)}, i \in {Null, U("https://example.com/image.png")} }
         \cup { Reply(FALSE, BodyOf([error |-> Str(LIT_FORBIDDEN),
                                     partial |-> Obj(PartialOf(url))])) }
    ELSE { Reply(FALSE, BodyOf([error |-> Str(LIT_INVALID_URL)])) }

\* the component before its effects: the useState initial values
FirstRender(urlParam) ==
  [ mounted |-> TRUE, urlParam |-> urlParam,
    inputUrl |-> EmptyStr, linkData |-> Null, loading |-> FALSE, error |-> Null,
    started |-> 0,        \* the number of calls of extractData so far
    inflight |-> {},      \* the calls that have not settled: [id, url]
    latest |-> Null,      \* what the call started last has set linkData to, once settled
    edited |-> FALSE,     \* handleEdit has changed linkData since it was last set
    event |-> "mount" ]

\* extractData up to `await fetch(...)`: setLoading(true), setError(null)
extractData(p, url) ==
  [p EXCEPT !.loading = TRUE, !.error = Null,
            !.started = p.started + 1,
            !.inflight = p.inflight \cup { [id |-> p.started + 1, url |-> url] },
            !.latest = Null]

\* the effect on [urlParam, extractData]
UrlEffect(p) ==
  IF Truthy(p.urlParam) THEN extractData([p EXCEPT !.inputUrl = p.urlParam], p.urlParam) ELSE p

\* the catch of extractData
Caught(message, url) ==
  [ error |-> Str(message),
    linkData |-> [title |-> Str(LIT_SIN_TITULO), description |-> EmptyStr, image |-> Null,
                  url |-> url, author |-> Null] ]

\* what extractData sets after its awaits: error (when it sets it) and linkData
Outcome(reply, url) ==
  IF reply.kind = "throw" THEN Caught(LIT_FAILED_TO_FETCH, url)
  ELSE IF reply.json = Invalid THEN Caught(LIT_NOT_JSON, url)
  ELSE LET data == reply.json
       IN IF ~reply.ok
            THEN IF Truthy(data.partial)
                   THEN [ error |-> Str(<<"No se pudieron extraer todos los datos: ">> \o data.error.v
                                        \o <<". Puedes editar los campos manualmente.">>),
                          linkData |-> [title |-> Or(data.partial.title, Str(LIT_SIN_TITULO)),
                                        description |-> Or(data.partial.description, EmptyStr),
                                        image |-> data.partial.image,
                                        url |-> Or(data.partial.url, url),
                                        author |-> data.partial.author] ]
                   ELSE Caught(Or(data.error, Str(LIT_ERROR_AL_EXTRAER)).v, url)
            ELSE [ error |-> Undef,
                   linkData |-> [title |-> Or(data.title, Str(LIT_SIN_TITULO)),
                                 description |-> Or(data.description, EmptyStr),
                                 image |-> data.image,
                                 url |-> Or(data.url, url),
                                 author |-> data.author] ]

\* extractData from the reply on: the set calls and `finally { setLoading(false) }`
AfterReply(p, call, reply) ==
  LET out == Outcome(reply, call.url)
  IN [p EXCEPT !.linkData = out.linkData,
               !.error = IF out.error = Undef THEN p.error ELSE out.error,
               !.loading = FALSE,
               !.inflight = p.inflight \ {call},
               !.latest = IF call.id = p.started THEN out.linkData ELSE p.latest,
               !.edited = FALSE]

\* { ...a, ...b }
Spread(a, b) ==
  [f \in DOMAIN a \cup DOMAIN b |-> IF f \in DOMAIN b THEN b[f] ELSE a[f]]

\* mutant: linkData is replaced by the data of the form
handleEdit_Replaces(p, data) ==
  IF p.linkData # Null
    THEN [p EXCEPT !.linkData = Spread([image |-> Null, author |-> Null], data)]
    ELSE p

\* if (linkData) setLinkData({ ...linkData, ...data })
handleEdit(p, data) ==
  IF p.linkData # Null
    THEN [p EXCEPT !.linkData = Spread(p.linkData, data)]
    ELSE p

\* what PreviewCard passes to onEdit
EditInputs ==
  { [title |-> Str(t), description |-> EmptyStr, url |-> u.raw] :
      t \in { T_HELLO, T_SOME_USER }, u \in { v \in PageUrls : v.host = <<"example","com">> } }

PageUnchanged == UNCHANGED <<scrapeVars, probe, sessions, route, card>>

\* the page is shown with another ?url= parameter: render and effect
UrlParamChanges(urlParam) ==
  /\ page.mounted
  /\ urlParam # page.urlParam
  /\ Truthy(urlParam) => page.started < MaxCalls
  /\ page' = [UrlEffect([page EXCEPT !.urlParam = urlParam]) EXCEPT !.event = "param"]
  /\ PageUnchanged

\* onChange of the input: setInputUrl
TypeInput(v) ==
  /\ page.mounted
  /\ v # page.inputUrl
  /\ page' = [page EXCEPT !.inputUrl = v, !.event = "input"]
  /\ PageUnchanged

\* handleSubmit; the submit button is disabled while loading
Submit ==
  /\ page.mounted
  /\ ~page.loading
  /\ page.started < MaxCalls
  /\ page' = [(IF Trim(page.inputUrl.v) # <<>>
                 THEN extractData(page, TrimStr(page.inputUrl))
                 ELSE page) EXCEPT !.event = "submit"]
  /\ PageUnchanged

\* a call of extractData gets its reply
ResponseArrives ==
  /\ page.mounted
  /\ \E call \in page.inflight :
       \E reply \in PageReplies(call.url) :
         page' = [AfterReply(page, call, reply) EXCEPT !.event = "reply"]
  /\ PageUnchanged

\* Save in the PreviewCard, which is rendered when linkData && !loading
HandleEdit(data) ==
  /\ page.mounted
  /\ page.linkData # Null
  /\ ~page.loading
  /\ page' = [handleEdit(page, data) EXCEPT !.edited = TRUE, !.event = "edited"]
  /\ PageUnchanged

InitPage ==
  /\ InitScrape
  /\ probe = NoProbe
  /\ route = NoRequest
  /\ card = NoCard
  /\ page \in { UrlEffect(FirstRender(urlParam)) : urlParam \in PageParams }

NextPage ==
  \/ \E urlParam \in PageParams : UrlParamChanges(urlParam)
  \/ \E v \in PageInputs : TypeInput(v)
  \/ Submit
  \/ ResponseArrives
  \/ \E data \in EditInputs : HandleEdit(data)

SpecPage == InitPage /\ [][NextPage]_vars


\* C29: loading is true whenever a call of extractData is in flight, and
\* once every call has settled the linkData displayed (not edited since) is
\* what the call started last has set.
C29_LatestCallWins ==
  page.mounted =>
    /\ page.inflight # {} => page.loading
    /\ (page.inflight = {} /\ page.started > 0 /\ ~page.edited) => page.linkData = page.latest

\* C30: handleEdit sets the title, description and url of linkData to those
\* of its argument and keeps image and author; with linkData null it changes
\* nothing; loading, error and inputUrl are never changed by it.
C30_EditFrame ==
  /\ [](page.mounted =>
          \A data \in EditInputs :
            LET q == handleEdit(page, data)
            IN /\ q.loading = page.loading
               /\ q.error = page.error
               /\ q.inputUrl = page.inputUrl
               /\ page.linkData = Null => q = page
               /\ page.linkData # Null =>
                    /\ DOMAIN q.linkData = DOMAIN page.linkData
                    /\ q.linkData.title = data.title
                    /\ q.linkData.description = data.description
                    /\ q.linkData.url = data.url
                    /\ q.linkData.image = page.linkData.image
                    /\ q.linkData.author = page.linkData.author)
  /\ [][(page.mounted /\ page'.event = "edited" /\ page' # page) =>
          /\ page'.linkData.image = page.linkData.image
          /\ page'.linkData.author = page.linkData.author
          /\ page'.loading = page.loading
          /\ page'.error = page.error
          /\ page'.inputUrl = page.inputUrl]_vars

\* An edit has changed the title and the url of a linkData that has an
\* image, next to an error message, and the image and the message are kept.
C30_Witness ==
  /\ page.mounted
  /\ page.event = "edited"
  /\ page.linkData.title = Str(T_SOME_USER)
  /\ page.linkData.url = U("https://example.com/article")
  /\ page.linkData.image = U("https://example.com/image.png")
  /\ page.inputUrl = U("https://www.youtube.com/watch?v=abc")
  /\ page.error # Null
  /\ ~page.loading

====
